---- MODULE Spec2Model ----
(***************************************************************************)
(* A model of the ascii-motion-mcp project state engine                    *)
(* (ProjectStateManager, v2.0.0): the sparse cell grid, the flat frame     *)
(* list, the command-based undo/redo stack, the region fill, the layer     *)
(* timeline and the two session formats.                                   *)
(*                                                                         *)
(* JavaScript objects that the history closures capture by reference       *)
(* (frames and cell-data records) live on an explicit heap, so that        *)
(* `frame.data = previousData` (re-pointing) and `delete data[key]`        *)
(* (in-place mutation) are different things, as they are in the code.      *)
(* Indices kept by the program (currentFrameIndex, historyIndex, array     *)
(* indices) are 0-based as in the source; At(s, i) reads s[i+1].           *)
(***************************************************************************)
EXTENDS Integers, Sequences, FiniteSets, TLC

VARIABLES
  state,    \* this.state : ProjectState
  heap,     \* the objects this.state and the history closures point to
  ret,      \* what the last call returned (or that it threw)
  lastOp,   \* the last call made on the manager
  clock,    \* number of mutating calls made so far; read by Date.now()
  shadow,   \* per mutating call (by timestamp): the document before/after it
  phase     \* shape of the call sequence so far: "ops", then "undos", then
            \* "redos"; "mixed" once the calls leave that shape

vars == <<state, heap, ret, lastOp, clock, shadow, phase>>

----------------------------------------------------------------------------
(* Bounds of the model *)

\* state.maxHistorySize is 100 in createDefaultState; the model runs the
\* same pushHistory code with a small capacity so that eviction is reached.
MaxHistorySize == 2
\* number of mutating calls (edits, frame operations, loads) in a behaviour
MaxOps == 3
\* longest frame list a behaviour builds (undo/redo of an out-of-range
\* addFrame can lengthen the list without end)
MaxFrames == 4
\* the canvas the behaviours start from: newProject({width, height})
InitWidth == 5
InitHeight == 4

(* Program constants *)
MIN_WIDTH == 4
MAX_WIDTH == 200
MIN_HEIGHT == 4
MAX_HEIGHT == 100
MIN_DURATION == 10
MAX_DURATION == 60000
DEFAULT_FRAME_DURATION == 100
DEFAULT_FRAME_RATE == 12
DEFAULT_TIMELINE_DURATION == 12

\* a reference that points at no object (JavaScript undefined / null)
Undefined == 0

\* what a call returned; a call that threw a TypeError left through Threw
RetBool(b) == [bool |-> b]
RetNum(n) == [num |-> n]
RetRef(r) == [ref |-> r]
RetVoid == [void |-> TRUE]
Threw == [threw |-> "TypeError"]
IsTrue(r) == "bool" \in DOMAIN r /\ r.bool
IsFalse(r) == "bool" \in DOMAIN r /\ ~r.bool
IsThrew(r) == "threw" \in DOMAIN r

\* an optional value is <<>> (absent, undefined) or <<value>>; opt ?? d
None == <<>>
Some(v) == <<v>>
OrElse(opt, d) == IF Len(opt) = 0 THEN d ELSE opt[1]

Max(a, b) == IF a > b THEN a ELSE b
Min(a, b) == IF a < b THEN a ELSE b
At(s, i) == s[i + 1]
\* s[i] in JavaScript: undefined outside the array
AtOrUndef(s, i) == IF i >= 0 /\ i < Len(s) THEN s[i + 1] ELSE Undefined

----------------------------------------------------------------------------
(* Grid primitives (types.ts) *)

EMPTY_CELL == [char |-> " ", color |-> "#FFFFFF", bgColor |-> "transparent"]

\* the test `cell.char === ' ' && cell.color === '#FFFFFF' && cell.bgColor === 'transparent'`
isEmpty(cell) == cell.char = " " /\ cell.color = "#FFFFFF" /\ cell.bgColor = "transparent"

DigitChars == <<"0", "1", "2", "3", "4", "5", "6", "7", "8", "9">>

RECURSIVE NatStr(_)
NatStr(n) == IF n < 10 THEN <<DigitChars[n + 1]>>
             ELSE NatStr(n \div 10) \o <<DigitChars[(n % 10) + 1]>>

\* `${n}` for an integer n
NumStr(n) == IF n < 0 THEN <<"-">> \o NatStr(0 - n) ELSE NatStr(n)

DigitVal(c) == CHOOSE d \in 0..9 : DigitChars[d + 1] = c

RECURSIVE StrNat(_)
StrNat(s) == IF Len(s) = 0 THEN 0
             ELSE StrNat(SubSeq(s, 1, Len(s) - 1)) * 10 + DigitVal(s[Len(s)])

\* Number(s) for the strings createCellKey produces
StrNum(s) == IF Len(s) > 0 /\ s[1] = "-" THEN 0 - StrNat(Tail(s)) ELSE StrNat(s)

\* `${x},${y}`
createCellKey(x, y) == NumStr(x) \o <<",">> \o NumStr(y)

\* key.split(',').map(Number)
parseCellKey(key) ==
  LET c == CHOOSE i \in 1..Len(key) : key[i] = ","
  IN [x |-> StrNum(SubSeq(key, 1, c - 1)), y |-> StrNum(SubSeq(key, c + 1, Len(key)))]

isInBounds(x, y, width, height) == x >= 0 /\ x < width /\ y >= 0 /\ y < height

\* CanvasData: a record keyed by cell key; an absent key is an empty cell
EmptyData == [k \in {} |-> EMPTY_CELL]
DataSet(d, k, cell) == [kk \in (DOMAIN d) \cup {k} |-> IF kk = k THEN cell ELSE d[kk]]
DataDelete(d, k) == [kk \in (DOMAIN d) \ {k} |-> d[kk]]
\* d[k] ?? EMPTY_CELL
DataGet(d, k) == IF k \in DOMAIN d THEN d[k] ELSE EMPTY_CELL

\* if (isEmpty) delete d[key]; else d[key] = { ...cell };
WriteCell(d, k, cell) == IF isEmpty(cell) THEN DataDelete(d, k) ELSE DataSet(d, k, cell)

\* the clip loop of resizeCanvas: keep the entries with x < width && y < height
ClipData(d, width, height) ==
  LET keep == {k \in DOMAIN d : parseCellKey(k).x < width /\ parseCellKey(k).y < height}
  IN [k \in keep |-> d[k]]

----------------------------------------------------------------------------
(* The heap: frame objects and cell-data objects, addressed by reference.   *)
(* heap.frames[f] = [id, name, duration, data] where data is a reference    *)
(* into heap.data (or Undefined); heap.data[r] is a CanvasData value.       *)

\* the reference the next allocated data object gets: the lowest one free
NextData(hp) ==
  CHOOSE r \in 1..(Cardinality(DOMAIN hp.data) + 1) :
    r \notin DOMAIN hp.data /\ \A q \in 1..(r - 1) : q \in DOMAIN hp.data
NewData(hp, d) ==
  [hp EXCEPT !.data = [r \in (DOMAIN hp.data) \cup {NextData(hp)} |->
                         IF r = NextData(hp) THEN d ELSE hp.data[r]]]
NewFrame(hp, fr) == [hp EXCEPT !.frames = Append(@, fr)]
LastFrame(hp) == Len(hp.frames)

\* { ...obj.data }: spreading undefined gives {}
Spread(hp, r) == IF r = Undefined THEN EmptyData ELSE hp.data[r]

\* JavaScript Array.prototype.splice(start, deleteCount, ...items)
Splice(s, start, deleteCount, items) ==
  LET len == Len(s)
      from == IF start < 0 THEN Max(len + start, 0) ELSE Min(start, len)
      del == Max(0, Min(deleteCount, len - from))
  IN SubSeq(s, 1, from) \o items \o SubSeq(s, from + del + 1, len)

----------------------------------------------------------------------------
(* Default state (createDefaultFrame, createDefaultState) *)

\* generateFrameId(): a fresh identifier, here the frame's heap address
FrameId(ref) == <<"uuid", ref>>

DefaultToolState ==
  [activeTool |-> "pencil", selectedColor |-> "#FFFFFF", selectedBgColor |-> "transparent",
   selectedCharacter |-> "@", paintBucketContiguous |-> TRUE, rectangleFilled |-> FALSE]

DefaultTypography ==
  [fontSize |-> 16, characterSpacing |-> 0, lineSpacing |-> 0, selectedFontId |-> "jetbrains-mono"]

\* createDefaultFrame(): allocates the frame and its empty data record
createDefaultFrame(hp) ==
  LET hp1 == NewData(hp, EmptyData)
  IN NewFrame(hp1, [id |-> FrameId(LastFrame(hp) + 1), name |-> <<"Frame", 1>>,
                    duration |-> DEFAULT_FRAME_DURATION, data |-> NextData(hp)])

\* createDefaultState() on heap hp: [state, heap]
createDefaultState(hp) ==
  LET hp1 == createDefaultFrame(hp)
  IN [heap |-> hp1,
      state |->
        [name |-> "Untitled Project", description |-> "", filePath |-> None,
         isDirty |-> FALSE,
         width |-> 80, height |-> 24, backgroundColor |-> "#000000", showGrid |-> TRUE,
         frames |-> <<LastFrame(hp1)>>, currentFrameIndex |-> 0,
         frameRate |-> DEFAULT_FRAME_RATE, looping |-> TRUE,
         layers |-> <<>>, layerGroups |-> <<>>, activeLayerId |-> Undefined,
         timelineConfig |-> [frameRate |-> DEFAULT_FRAME_RATE,
                             durationFrames |-> DEFAULT_TIMELINE_DURATION],
         toolState |-> DefaultToolState, typography |-> DefaultTypography,
         selection |-> Undefined,
         historyStack |-> <<>>, historyIndex |-> -1, maxHistorySize |-> MaxHistorySize]]

EmptyHeap == [frames |-> <<>>, data |-> <<>>, cframes |-> <<>>, ids |-> 0]

Ret(st, hp, r) == [state |-> st, heap |-> hp, ret |-> r]

isLayerMode(st) == Len(st.layers) > 0

\* this.state.frames[this.state.currentFrameIndex]: a frame reference or Undefined
getCurrentFrame(W) == AtOrUndef(W.state.frames, W.state.currentFrameIndex)

----------------------------------------------------------------------------
(* History engine *)

Entry(type, description, now, cap) ==
  [type |-> type, description |-> description, timestamp |-> now, cap |-> cap]

pushHistory_NoTruncate(st, entry) ==
  LET s2 == Append(st.historyStack, entry)
  IN IF Len(s2) > st.maxHistorySize
     THEN [st EXCEPT !.historyStack = Tail(s2), !.historyIndex = Len(s2) - 2]
     ELSE [st EXCEPT !.historyStack = s2, !.historyIndex = Len(s2) - 1]

pushHistory_NoTrim(st, entry) ==
  LET s1 == IF st.historyIndex < Len(st.historyStack) - 1
            THEN SubSeq(st.historyStack, 1, st.historyIndex + 1)
            ELSE st.historyStack
      s2 == Append(s1, entry)
  IN [st EXCEPT !.historyStack = s2, !.historyIndex = Len(s2) - 1]

\* pushHistory whose capacity shift() leaves the cursor where it was
pushHistory_ShiftKeepsCursor(st, entry) ==
  LET s1 == IF st.historyIndex < Len(st.historyStack) - 1
            THEN SubSeq(st.historyStack, 1, st.historyIndex + 1)
            ELSE st.historyStack
      s2 == Append(s1, entry)
  IN IF Len(s2) > st.maxHistorySize
     THEN [st EXCEPT !.historyStack = Tail(s2), !.historyIndex = Len(s2) - 1]
     ELSE [st EXCEPT !.historyStack = s2, !.historyIndex = Len(s2) - 1]

pushHistory(st, entry) ==
  LET \* remove any redo history beyond the current index
      s1 == IF st.historyIndex < Len(st.historyStack) - 1
            THEN SubSeq(st.historyStack, 1, st.historyIndex + 1)
            ELSE st.historyStack
      s2 == Append(s1, entry)
      i2 == Len(s2) - 1
  IN \* trim if over max size: shift() and historyIndex--
     IF Len(s2) > st.maxHistorySize
     THEN [st EXCEPT !.historyStack = Tail(s2), !.historyIndex = i2 - 1]
     ELSE [st EXCEPT !.historyStack = s2, !.historyIndex = i2]

canUndo(st) == st.historyIndex >= 0
canRedo(st) == st.historyIndex < Len(st.historyStack) - 1

----------------------------------------------------------------------------
(* Canvas operations, legacy (flat) frame mode *)

\* getCell(x, y) in flat mode; the caller has checked that the current
\* frame and its data exist (otherwise the read throws)
\* The active layer and the content frame showing at the current frame

\* this.state.layers.find(l => l.id === layerId): its position, 0 if none
FindLayer(st, layerId) ==
  LET hits == {i \in 1..Len(st.layers) : st.layers[i].id = layerId}
  IN IF hits = {} THEN 0 ELSE CHOOSE i \in hits : \A k \in hits : i <= k

getActiveLayer(st) ==
  IF Len(st.activeLayerId) = 0 THEN 0 ELSE FindLayer(st, st.activeLayerId[1])

\* getContentFrameAtTime that does not look at the timeline position
getContentFrameAtTime_AnyTime(hp, layer, frame) ==
  LET hits == {i \in 1..Len(layer.contentFrames) :
                 ~hp.cframes[layer.contentFrames[i]].hidden}
  IN IF hits = {} THEN Undefined
     ELSE layer.contentFrames[CHOOSE i \in hits : \A k \in hits : i <= k]

\* the content frame of `layer` showing at `frame` (a reference), Undefined if none
getContentFrameAtTime(hp, layer, frame) ==
  LET hits == {i \in 1..Len(layer.contentFrames) :
                 LET cf == hp.cframes[layer.contentFrames[i]]
                 IN ~cf.hidden /\ frame >= cf.startFrame
                      /\ frame < cf.startFrame + cf.durationFrames}
  IN IF hits = {} THEN Undefined
     ELSE layer.contentFrames[CHOOSE i \in hits : \A k \in hits : i <= k]

getActiveContentFrame(W) ==
  LET i == getActiveLayer(W.state)
  IN IF i = 0 THEN Undefined
     ELSE getContentFrameAtTime(W.heap, W.state.layers[i], W.state.currentFrameIndex)

getCell(W, x, y) ==
  IF ~isInBounds(x, y, W.state.width, W.state.height) THEN EMPTY_CELL
  ELSE IF isLayerMode(W.state)
    THEN LET cf == getActiveContentFrame(W)
         IN IF cf = Undefined THEN EMPTY_CELL
            ELSE DataGet(W.heap.data[W.heap.cframes[cf].data], createCellKey(x, y))
  ELSE DataGet(W.heap.data[W.heap.frames[getCurrentFrame(W)].data], createCellKey(x, y))

\* TRUE when reading a cell of the current frame would throw
NoCurrentData(W) ==
  getCurrentFrame(W) = Undefined \/ W.heap.frames[getCurrentFrame(W)].data = Undefined

setCell(W, x, y, cell, recordHistory, now) ==
  LET st == W.state
      hp == W.heap
      key == createCellKey(x, y)
      frame == getCurrentFrame(W)
  IN IF ~isInBounds(x, y, st.width, st.height) THEN Ret(st, hp, RetBool(FALSE))
     ELSE IF isLayerMode(st) THEN
       LET li == getActiveLayer(st)
           cf == getActiveContentFrame(W)
       IN IF li = 0 \/ st.layers[li].locked THEN Ret(st, hp, RetBool(FALSE))
          ELSE IF cf = Undefined THEN Ret(st, hp, RetBool(FALSE))
          ELSE
            LET r == hp.cframes[cf].data
                st1 == IF recordHistory
                       THEN pushHistory(st, Entry("set_cell",
                              <<"Set cell at", x, y, "on layer", st.layers[li].name>>, now,
                              [cf |-> cf, key |-> key, hadPrevious |-> key \in DOMAIN hp.data[r],
                               previousCell |-> DataGet(hp.data[r], key), cell |-> cell]))
                       ELSE st
                hp1 == [hp EXCEPT !.data[r] = WriteCell(@, key, cell)]
            IN Ret([st1 EXCEPT !.isDirty = TRUE], hp1, RetBool(TRUE))
     ELSE IF NoCurrentData(W) THEN Ret(st, hp, Threw)
     ELSE
       LET r == hp.frames[frame].data
           had == key \in DOMAIN hp.data[r]
           previousCell == DataGet(hp.data[r], key)
           st1 == IF recordHistory
                  THEN pushHistory(st, Entry("set_cell", <<"Set cell at", x, y>>, now,
                         [frame |-> frame, key |-> key, hadPrevious |-> had,
                          previousCell |-> previousCell, cell |-> cell]))
                  ELSE st
           hp1 == [hp EXCEPT !.data[r] = WriteCell(@, key, cell)]
       IN Ret([st1 EXCEPT !.isDirty = TRUE], hp1, RetBool(TRUE))

\* the loop of setCells over the cells array, writing into data record d
RECURSIVE WriteCells(_, _, _, _, _)
WriteCells(d, cells, i, width, height) ==
  IF i > Len(cells) THEN [data |-> d, count |-> 0]
  ELSE LET c == cells[i]
       IN IF ~isInBounds(c.x, c.y, width, height)
          THEN WriteCells(d, cells, i + 1, width, height)
          ELSE LET rest == WriteCells(WriteCell(d, createCellKey(c.x, c.y), c.cell),
                                      cells, i + 1, width, height)
               IN [data |-> rest.data, count |-> rest.count + 1]

setCells(W, cells, recordHistory, now) ==
  LET st == W.state
      hp == W.heap
      frame == getCurrentFrame(W)
  IN IF isLayerMode(st) THEN
       LET li == getActiveLayer(st)
           cf == getActiveContentFrame(W)
       IN IF li = 0 \/ st.layers[li].locked THEN Ret(st, hp, RetNum(0))
          ELSE IF cf = Undefined THEN Ret(st, hp, RetNum(0))
          ELSE
            LET r == hp.cframes[cf].data
                \* const previousData = { ...cf.data }
                hp1 == NewData(hp, hp.data[r])
                previousData == NextData(hp)
                w == WriteCells(hp.data[r], cells, 1, st.width, st.height)
                hp2 == [hp1 EXCEPT !.data[r] = w.data]
                \* const newData = { ...cf.data }
                hp3 == IF recordHistory /\ w.count > 0 THEN NewData(hp2, w.data) ELSE hp2
                st1 == IF recordHistory /\ w.count > 0
                       THEN pushHistory(st, Entry("set_cells_batch",
                              <<"Set cells", w.count, "on layer", st.layers[li].name>>, now,
                              [cf |-> cf, previousData |-> previousData,
                               newData |-> NextData(hp2)]))
                       ELSE st
            IN Ret([st1 EXCEPT !.isDirty = (w.count > 0) \/ @], hp3, RetNum(w.count))
     ELSE IF frame = Undefined THEN Ret(st, hp, Threw)
     ELSE
       LET r == hp.frames[frame].data
           \* const previousData = { ...frame.data }
           hp1 == NewData(hp, Spread(hp, r))
           previousData == NextData(hp)
           w == WriteCells(Spread(hp, r), cells, 1, st.width, st.height)
       IN IF r = Undefined
          THEN \* the first in-bounds cell writes through undefined and throws
               IF w.count > 0 THEN Ret(st, hp1, Threw) ELSE Ret(st, hp1, RetNum(0))
          ELSE
            LET hp2 == [hp1 EXCEPT !.data[r] = w.data]
                \* const newData = { ...frame.data }
                hp3 == IF recordHistory /\ w.count > 0 THEN NewData(hp2, w.data) ELSE hp2
                st1 == IF recordHistory /\ w.count > 0
                       THEN pushHistory(st, Entry("set_cells_batch", <<"Set cells", w.count>>, now,
                              [frame |-> frame, previousData |-> previousData,
                               newData |-> NextData(hp2)]))
                       ELSE st
            IN Ret([st1 EXCEPT !.isDirty = (w.count > 0) \/ @], hp3, RetNum(w.count))

clearCell(W, x, y, recordHistory, now) == setCell(W, x, y, EMPTY_CELL, recordHistory, now)

clearCanvas(W, recordHistory, now) ==
  LET st == W.state
      hp == W.heap
      frame == getCurrentFrame(W)
  IN IF isLayerMode(st) THEN
       LET li == getActiveLayer(st)
           cf == getActiveContentFrame(W)
       IN IF li = 0 \/ st.layers[li].locked THEN Ret(st, hp, RetVoid)
          ELSE IF cf = Undefined THEN Ret(st, hp, RetVoid)
          ELSE
            LET r == hp.cframes[cf].data
                \* const previousData = { ...cf.data }
                hp1 == NewData(hp, hp.data[r])
                previousData == NextData(hp)
                st1 == IF recordHistory
                       THEN pushHistory(st, Entry("clear_canvas",
                              <<"Clear canvas on layer", st.layers[li].name>>, now,
                              [cf |-> cf, previousData |-> previousData]))
                       ELSE st
                \* Object.keys(cf.data).forEach(k => delete cf.data[k])
                hp2 == [hp1 EXCEPT !.data[r] = EmptyData]
            IN Ret([st1 EXCEPT !.isDirty = TRUE], hp2, RetVoid)
     ELSE IF frame = Undefined THEN Ret(st, hp, Threw)
     ELSE
       LET hp1 == NewData(hp, Spread(hp, hp.frames[frame].data))
           previousData == NextData(hp)
           st1 == IF recordHistory
                  THEN pushHistory(st, Entry("clear_canvas", <<"Clear canvas">>, now,
                         [frame |-> frame, previousData |-> previousData]))
                  ELSE st
           \* frame.data = {}
           hp2 == NewData(hp1, EmptyData)
           hp3 == [hp2 EXCEPT !.frames[frame].data = NextData(hp1)]
       IN Ret([st1 EXCEPT !.isDirty = TRUE], hp3, RetVoid)

\* this.state.frames.forEach(frame => { ...clip...; frame.data = newData }):
\* Object.entries(frame.data) throws at the first frame without data
RECURSIVE ClipFrames(_, _, _, _, _)
ClipFrames(hp, frames, i, width, height) ==
  IF i > Len(frames) THEN [heap |-> hp, threw |-> FALSE]
  ELSE LET f == frames[i]
           r == hp.frames[f].data
       IN IF r = Undefined THEN [heap |-> hp, threw |-> TRUE]
          ELSE LET hp1 == NewData(hp, ClipData(hp.data[r], width, height))
                   hp2 == [hp1 EXCEPT !.frames[f].data = NextData(hp)]
               IN ClipFrames(hp2, frames, i + 1, width, height)

\* this.state.frames.forEach((frame, i) => { frame.data = previousFrameData[i]; })
RECURSIVE RestoreFrames(_, _, _, _)
RestoreFrames(hp, frames, refs, i) ==
  IF i > Len(frames) THEN hp
  ELSE RestoreFrames([hp EXCEPT !.frames[frames[i]].data = AtOrUndef(refs, i - 1)],
                     frames, refs, i + 1)

\* this.state.frames.map(f => ({ ...f.data })): one fresh copy per frame
RECURSIVE CopyFrameData(_, _, _, _)
CopyFrameData(hp, frames, i, acc) ==
  IF i > Len(frames) THEN [heap |-> hp, refs |-> acc]
  ELSE CopyFrameData(NewData(hp, Spread(hp, hp.frames[frames[i]].data)), frames, i + 1,
                     Append(acc, NextData(hp)))

ClampWidth(w) == Max(MIN_WIDTH, Min(MAX_WIDTH, w))
ClampHeight(h) == Max(MIN_HEIGHT, Min(MAX_HEIGHT, h))

resizeCanvas(W, w0, h0, recordHistory, now) ==
  LET st == W.state
      hp == W.heap
      width == ClampWidth(w0)
      height == ClampHeight(h0)
      n == Len(st.frames)
      \* this.state.frames.map(f => ({ ...f.data }))
      m == CopyFrameData(hp, st.frames, 1, <<>>)
      hp1 == m.heap
      previousFrameData == m.refs
      st1 == IF recordHistory
             THEN pushHistory(st, Entry("resize_canvas", <<"Resize canvas to", width, height>>, now,
                    [previousWidth |-> st.width, previousHeight |-> st.height,
                     width |-> width, height |-> height,
                     previousFrameData |-> previousFrameData]))
             ELSE st
      st2 == [st1 EXCEPT !.width = width, !.height = height]
      c == ClipFrames(hp1, st.frames, 1, width, height)
  IN IF c.threw THEN Ret(st2, c.heap, Threw)
     ELSE Ret([st2 EXCEPT !.isDirty = TRUE], c.heap, RetVoid)


----------------------------------------------------------------------------
(* Fill operations *)

\* the `matches` closure of fillRegion
matches(cell, targetCell, opts) ==
  /\ (opts.matchChar => cell.char = targetCell.char)
  /\ (opts.matchColor => cell.color = targetCell.color)
  /\ (opts.matchBgColor => cell.bgColor = targetCell.bgColor)

\* the loop body pushing three neighbours: the one above is left out
FloodStep_NoUp(W, targetCell, opts, S) ==
  IF Len(S.queue) = 0 THEN S
  ELSE
    LET p == Head(S.queue)
        key == createCellKey(p.x, p.y)
        rest == Tail(S.queue)
    IN IF key \in S.visited THEN [S EXCEPT !.queue = rest]
       ELSE IF ~isInBounds(p.x, p.y, W.state.width, W.state.height)
         THEN [S EXCEPT !.queue = rest]
       ELSE IF ~matches(getCell(W, p.x, p.y), targetCell, opts)
         THEN [S EXCEPT !.queue = rest, !.visited = @ \cup {key}]
       ELSE [queue |-> rest \o <<[x |-> p.x - 1, y |-> p.y], [x |-> p.x + 1, y |-> p.y],
                                  [x |-> p.x, y |-> p.y + 1]>>,
             visited |-> S.visited \cup {key},
             fill |-> S.fill \cup {key}]

\* the loop body without `visited.add(key)` on the cells it expands
FloodStep_Revisit(W, targetCell, opts, S) ==
  IF Len(S.queue) = 0 THEN S
  ELSE
    LET p == Head(S.queue)
        key == createCellKey(p.x, p.y)
        rest == Tail(S.queue)
    IN IF key \in S.visited THEN [S EXCEPT !.queue = rest]
       ELSE IF ~isInBounds(p.x, p.y, W.state.width, W.state.height)
         THEN [S EXCEPT !.queue = rest]
       ELSE IF ~matches(getCell(W, p.x, p.y), targetCell, opts)
         THEN [S EXCEPT !.queue = rest, !.visited = @ \cup {key}]
       ELSE [queue |-> rest \o <<[x |-> p.x - 1, y |-> p.y], [x |-> p.x + 1, y |-> p.y],
                                  [x |-> p.x, y |-> p.y - 1], [x |-> p.x, y |-> p.y + 1]>>,
             visited |-> S.visited,
             fill |-> S.fill \cup {key}]

\* One iteration of the flood-fill `while (queue.length > 0)` loop on
\* S = [queue, visited, fill]: the FIFO work queue and the two Sets of keys.
\* With an empty queue the loop has ended and S stays as it is.
FloodStep(W, targetCell, opts, S) ==
  IF Len(S.queue) = 0 THEN S
  ELSE
    LET p == Head(S.queue)
        key == createCellKey(p.x, p.y)
        rest == Tail(S.queue)
    IN IF key \in S.visited THEN [S EXCEPT !.queue = rest]
       ELSE IF ~isInBounds(p.x, p.y, W.state.width, W.state.height)
         THEN [S EXCEPT !.queue = rest]
       ELSE IF ~matches(getCell(W, p.x, p.y), targetCell, opts)
         THEN [S EXCEPT !.queue = rest, !.visited = @ \cup {key}]
       ELSE [queue |-> rest \o <<[x |-> p.x - 1, y |-> p.y], [x |-> p.x + 1, y |-> p.y],
                                  [x |-> p.x, y |-> p.y - 1], [x |-> p.x, y |-> p.y + 1]>>,
             visited |-> S.visited \cup {key},
             fill |-> S.fill \cup {key}]

\* n iterations of the loop (split in halves to keep the evaluation shallow)
RECURSIVE FloodIterate(_, _, _, _, _)
FloodIterate(W, targetCell, opts, n, S) ==
  IF n = 0 THEN S
  ELSE IF n = 1 THEN FloodStep(W, targetCell, opts, S)
  ELSE LET half == FloodIterate(W, targetCell, opts, n \div 2, S)
       IN IF Len(half.queue) = 0 THEN half
          ELSE FloodIterate(W, targetCell, opts, n - (n \div 2), half)

\* the loop runs at most once for the seed and once for each of the four
\* neighbours pushed by each in-bounds cell, which is expanded at most once
FloodFuel(W) == 1 + 4 * W.state.width * W.state.height

\* the loop run to its end from the seed
FloodLoop(W, targetCell, opts, startX, startY) ==
  FloodIterate(W, targetCell, opts, FloodFuel(W),
               [queue |-> <<[x |-> startX, y |-> startY]>>, visited |-> {}, fill |-> {}])

\* the non-contiguous scan over the whole canvas
ScanAll(W, targetCell, opts) ==
  {createCellKey(x, y) : <<x, y>> \in
     {<<x, y>> \in (0..(W.state.width - 1)) \X (0..(W.state.height - 1)) :
        matches(getCell(W, x, y), targetCell, opts)}}

\* cellsToFill of fillRegion(startX, startY, _, opts); the current frame has data
cellsToFill(W, startX, startY, opts) ==
  LET targetCell == getCell(W, startX, startY)
  IN IF opts.contiguous
     THEN FloodLoop(W, targetCell, opts, startX, startY).fill
     ELSE ScanAll(W, targetCell, opts)

\* FillData that keeps nothing but the filled cells
FillData_Overwrite(d, keys, fillCell) ==
  IF isEmpty(fillCell) THEN [k \in (DOMAIN d) \ keys |-> d[k]]
  ELSE [k \in keys |-> fillCell]

\* for (const key of cellsToFill) { write fillCell at key }
FillData(d, keys, fillCell) ==
  IF isEmpty(fillCell) THEN [k \in (DOMAIN d) \ keys |-> d[k]]
  ELSE [k \in (DOMAIN d) \cup keys |-> IF k \in keys THEN fillCell ELSE d[k]]

fillRegion(W, startX, startY, fillCell, opts, recordHistory, now) ==
  LET st == W.state
      hp == W.heap
      frame == getCurrentFrame(W)
      cf == getActiveContentFrame(W)
      seedIn == isInBounds(startX, startY, st.width, st.height)
  IN \* getCell reads frame.data[key] for every in-bounds coordinate it is asked
     IF ~isLayerMode(st) /\ NoCurrentData(W) /\ (seedIn \/ ~opts.contiguous)
     THEN Ret(st, hp, Threw)
     \* this.getCurrentFrame().data
     ELSE IF ~isLayerMode(st) /\ frame = Undefined THEN Ret(st, hp, Threw)
     \* if (!dataTarget) return 0
     ELSE IF (IF isLayerMode(st) THEN cf = Undefined
              ELSE hp.frames[frame].data = Undefined)
     THEN Ret(st, hp, RetNum(0))
     ELSE
       LET keys == cellsToFill(W, startX, startY, opts)
           size == Cardinality(keys)
           dataTarget == IF isLayerMode(st) THEN hp.cframes[cf].data
                         ELSE hp.frames[frame].data
           \* const previousData = { ...dataTarget }
           hp1 == NewData(hp, hp.data[dataTarget])
           previousData == NextData(hp)
           hp2 == [hp1 EXCEPT !.data[dataTarget] = FillData(@, keys, fillCell)]
           \* const newData = { ...dataTarget }
           hp3 == IF recordHistory /\ size > 0 THEN NewData(hp2, hp2.data[dataTarget]) ELSE hp2
           st1 == IF recordHistory /\ size > 0
                  THEN pushHistory(st, Entry("fill_region", <<"Fill cells", size>>, now,
                         [dataTarget |-> dataTarget, previousData |-> previousData,
                          newData |-> NextData(hp2)]))
                  ELSE st
       IN Ret([st1 EXCEPT !.isDirty = (size > 0) \/ @], hp3, RetNum(size))

----------------------------------------------------------------------------
(* Legacy frame operations *)

\* the reclamp after a removal
ReclampIndex(st) ==
  IF st.currentFrameIndex >= Len(st.frames)
  THEN [st EXCEPT !.currentFrameIndex = Max(0, Len(st.frames) - 1)]
  ELSE st

addFrame(W, atIndex, canvasData, duration, recordHistory, now) ==
  LET st == W.state
      hp == W.heap
      hp1 == NewData(hp, OrElse(canvasData, EmptyData))
      hp2 == NewFrame(hp1, [id |-> FrameId(LastFrame(hp1) + 1),
                            name |-> <<"Frame", Len(st.frames) + 1>>,
                            duration |-> OrElse(duration, DEFAULT_FRAME_DURATION),
                            data |-> NextData(hp)])
      newFrame == LastFrame(hp2)
      insertIndex == OrElse(atIndex, Len(st.frames))
      st1 == IF recordHistory
             THEN pushHistory(st, Entry("add_frame", <<"Add frame at index", insertIndex>>, now,
                    [insertIndex |-> insertIndex, newFrame |-> newFrame]))
             ELSE st
  IN Ret([st1 EXCEPT !.frames = Splice(@, insertIndex, 0, <<newFrame>>), !.isDirty = TRUE],
         hp2, RetRef(newFrame))

\* deleteFrame without the last-frame guard
deleteFrame_NoLastGuard(W, index, recordHistory, now) ==
  LET st == W.state
      hp == W.heap
  IN IF index < 0 \/ index >= Len(st.frames) THEN Ret(st, hp, RetBool(FALSE))
     ELSE
       LET st1 == IF recordHistory
                  THEN pushHistory(st, Entry("delete_frame", <<"Delete frame", index>>, now,
                         [index |-> index, deletedFrame |-> At(st.frames, index),
                          previousCurrentIndex |-> st.currentFrameIndex]))
                  ELSE st
           st2 == ReclampIndex([st1 EXCEPT !.frames = Splice(@, index, 1, <<>>)])
       IN Ret([st2 EXCEPT !.isDirty = TRUE], hp, RetBool(TRUE))

deleteFrame(W, index, recordHistory, now) ==
  LET st == W.state
      hp == W.heap
  IN IF index < 0 \/ index >= Len(st.frames) THEN Ret(st, hp, RetBool(FALSE))
     \* don't allow deleting the last frame
     ELSE IF Len(st.frames) = 1 THEN Ret(st, hp, RetBool(FALSE))
     ELSE
       LET st1 == IF recordHistory
                  THEN pushHistory(st, Entry("delete_frame", <<"Delete frame", index>>, now,
                         [index |-> index, deletedFrame |-> At(st.frames, index),
                          previousCurrentIndex |-> st.currentFrameIndex]))
                  ELSE st
           st2 == ReclampIndex([st1 EXCEPT !.frames = Splice(@, index, 1, <<>>)])
       IN Ret([st2 EXCEPT !.isDirty = TRUE], hp, RetBool(TRUE))

duplicateFrame(W, index, recordHistory, now) ==
  LET st == W.state
      hp == W.heap
  IN IF index < 0 \/ index >= Len(st.frames) THEN Ret(st, hp, RetRef(Undefined))
     ELSE
       LET sourceFrame == hp.frames[At(st.frames, index)]
           hp1 == NewData(hp, Spread(hp, sourceFrame.data))
           hp2 == NewFrame(hp1, [id |-> FrameId(LastFrame(hp1) + 1),
                                 name |-> sourceFrame.name \o <<"(copy)">>,
                                 duration |-> sourceFrame.duration,
                                 data |-> NextData(hp)])
           newFrame == LastFrame(hp2)
           insertIndex == index + 1
           st1 == IF recordHistory
                  THEN pushHistory(st, Entry("duplicate_frame", <<"Duplicate frame", index>>, now,
                         [insertIndex |-> insertIndex, newFrame |-> newFrame]))
                  ELSE st
       IN Ret([st1 EXCEPT !.frames = Splice(@, insertIndex, 0, <<newFrame>>), !.isDirty = TRUE],
              hp2, RetRef(newFrame))

\* goToFrame that moves first and validates afterwards
goToFrame_MoveThenCheck(W, index) ==
  LET st == [W.state EXCEPT !.currentFrameIndex = index]
      limit == IF isLayerMode(st) THEN st.timelineConfig.durationFrames ELSE Len(st.frames)
  IN Ret(st, W.heap, RetBool(index >= 0 /\ index < limit))

goToFrame(W, index) ==
  LET st == W.state
  IN IF isLayerMode(st)
     THEN IF index < 0 \/ index >= st.timelineConfig.durationFrames
          THEN Ret(st, W.heap, RetBool(FALSE))
          ELSE Ret([st EXCEPT !.currentFrameIndex = index], W.heap, RetBool(TRUE))
     ELSE IF index < 0 \/ index >= Len(st.frames) THEN Ret(st, W.heap, RetBool(FALSE))
     ELSE Ret([st EXCEPT !.currentFrameIndex = index], W.heap, RetBool(TRUE))

ClampDuration(d) == Max(MIN_DURATION, Min(MAX_DURATION, d))

setFrameDuration(W, index, duration0, recordHistory, now) ==
  LET st == W.state
      hp == W.heap
  IN IF index < 0 \/ index >= Len(st.frames) THEN Ret(st, hp, RetBool(FALSE))
     ELSE
       LET duration == ClampDuration(duration0)
           frame == At(st.frames, index)
           st1 == IF recordHistory
                  THEN pushHistory(st, Entry("set_frame_duration",
                         <<"Set frame duration", index, duration>>, now,
                         [frame |-> frame, previousDuration |-> hp.frames[frame].duration,
                          duration |-> duration]))
                  ELSE st
       IN Ret([st1 EXCEPT !.isDirty = TRUE],
              [hp EXCEPT !.frames[frame].duration = duration], RetBool(TRUE))

setFrameName(W, index, name, recordHistory, now) ==
  LET st == W.state
      hp == W.heap
  IN IF index < 0 \/ index >= Len(st.frames) THEN Ret(st, hp, RetBool(FALSE))
     ELSE
       LET frame == At(st.frames, index)
           st1 == IF recordHistory
                  THEN pushHistory(st, Entry("set_frame_name", <<"Rename frame", index, name>>, now,
                         [frame |-> frame, previousName |-> hp.frames[frame].name,
                          name |-> name]))
                  ELSE st
       IN Ret([st1 EXCEPT !.isDirty = TRUE],
              [hp EXCEPT !.frames[frame].name = name], RetBool(TRUE))

----------------------------------------------------------------------------
(* The undo and redo closures of the history entries.  Each returns        *)
(* [state, heap, threw]: threw when the closure raised a TypeError, with    *)
(* whatever it had changed before.                                          *)

Done(st, hp) == [state |-> st, heap |-> hp, threw |-> FALSE]
Raised(st, hp) == [state |-> st, heap |-> hp, threw |-> TRUE]

\* Object.keys(target).forEach(k => delete target[k]); Object.assign(target, source)
ReplaceContents(hp, target, source) == [hp EXCEPT !.data[target] = hp.data[source]]

fillUndo(W, e) ==
  Done(W.state, ReplaceContents(W.heap, e.cap.dataTarget, e.cap.previousData))

fillRedo(W, e) ==
  Done(W.state, ReplaceContents(W.heap, e.cap.dataTarget, e.cap.newData))

entryUndo(W, e) ==
  LET st == W.state
      hp == W.heap
      c == e.cap
  IN CASE e.type = "set_cell" ->
            LET r == IF "cf" \in DOMAIN c THEN hp.cframes[c.cf].data
                     ELSE hp.frames[c.frame].data
            IN IF r = Undefined THEN Raised(st, hp)
               ELSE IF c.hadPrevious
                 THEN Done(st, [hp EXCEPT !.data[r] = DataSet(@, c.key, c.previousCell)])
                 ELSE Done(st, [hp EXCEPT !.data[r] = DataDelete(@, c.key)])
       [] e.type = "set_cells_batch" ->
            IF "cf" \in DOMAIN c
            THEN Done(st, ReplaceContents(hp, hp.cframes[c.cf].data, c.previousData))
            ELSE Done(st, [hp EXCEPT !.frames[c.frame].data = c.previousData])
       [] e.type = "clear_canvas" ->
            IF "cf" \in DOMAIN c
            THEN Done(st, ReplaceContents(hp, hp.cframes[c.cf].data, c.previousData))
            ELSE Done(st, [hp EXCEPT !.frames[c.frame].data = c.previousData])
       [] e.type = "resize_canvas" ->
            Done([st EXCEPT !.width = c.previousWidth, !.height = c.previousHeight],
                 RestoreFrames(hp, st.frames, c.previousFrameData, 1))
       [] e.type = "fill_region" -> fillUndo(W, e)
       [] e.type = "add_frame" ->
            Done(ReclampIndex([st EXCEPT !.frames = Splice(@, c.insertIndex, 1, <<>>)]), hp)
       [] e.type = "delete_frame" ->
            Done([st EXCEPT !.frames = Splice(@, c.index, 0, <<c.deletedFrame>>),
                            !.currentFrameIndex = c.previousCurrentIndex], hp)
       [] e.type = "duplicate_frame" ->
            Done([st EXCEPT !.frames = Splice(@, c.insertIndex, 1, <<>>)], hp)
       [] e.type = "set_frame_duration" ->
            Done(st, [hp EXCEPT !.frames[c.frame].duration = c.previousDuration])
       [] e.type = "set_frame_name" ->
            Done(st, [hp EXCEPT !.frames[c.frame].name = c.previousName])

entryRedo(W, e) ==
  LET st == W.state
      hp == W.heap
      c == e.cap
  IN CASE e.type = "set_cell" ->
            LET r == IF "cf" \in DOMAIN c THEN hp.cframes[c.cf].data
                     ELSE hp.frames[c.frame].data
            IN IF r = Undefined THEN Raised(st, hp)
               ELSE Done(st, [hp EXCEPT !.data[r] = WriteCell(@, c.key, c.cell)])
       [] e.type = "set_cells_batch" ->
            IF "cf" \in DOMAIN c
            THEN Done(st, ReplaceContents(hp, hp.cframes[c.cf].data, c.newData))
            ELSE Done(st, [hp EXCEPT !.frames[c.frame].data = c.newData])
       [] e.type = "clear_canvas" ->
            IF "cf" \in DOMAIN c
            THEN Done(st, [hp EXCEPT !.data[hp.cframes[c.cf].data] = EmptyData])
            ELSE LET hp1 == NewData(hp, EmptyData)
                 IN Done(st, [hp1 EXCEPT !.frames[c.frame].data = NextData(hp)])
       [] e.type = "resize_canvas" ->
            LET st1 == [st EXCEPT !.width = c.width, !.height = c.height]
                r == ClipFrames(hp, st.frames, 1, c.width, c.height)
            IN [state |-> st1, heap |-> r.heap, threw |-> r.threw]
       [] e.type = "fill_region" -> fillRedo(W, e)
       [] e.type = "add_frame" ->
            Done([st EXCEPT !.frames = Splice(@, c.insertIndex, 0, <<c.newFrame>>)], hp)
       [] e.type = "delete_frame" ->
            Done(ReclampIndex([st EXCEPT !.frames = Splice(@, c.index, 1, <<>>)]), hp)
       [] e.type = "duplicate_frame" ->
            Done([st EXCEPT !.frames = Splice(@, c.insertIndex, 0, <<c.newFrame>>)], hp)
       [] e.type = "set_frame_duration" ->
            Done(st, [hp EXCEPT !.frames[c.frame].duration = c.duration])
       [] e.type = "set_frame_name" ->
            Done(st, [hp EXCEPT !.frames[c.frame].name = c.name])

\* undo() that runs the entry's closure and leaves the cursor where it was
undo_KeepCursor(W) ==
  LET st == W.state
  IN IF st.historyIndex < 0 THEN Ret(st, W.heap, RetBool(FALSE))
     ELSE
       LET r == entryUndo(W, At(st.historyStack, st.historyIndex))
       IN IF r.threw THEN Ret(r.state, r.heap, Threw)
          ELSE Ret([r.state EXCEPT !.isDirty = TRUE], r.heap, RetBool(TRUE))

undo(W) ==
  LET st == W.state
  IN IF st.historyIndex < 0 THEN Ret(st, W.heap, RetBool(FALSE))
     ELSE
       LET r == entryUndo(W, At(st.historyStack, st.historyIndex))
       IN IF r.threw THEN Ret(r.state, r.heap, Threw)
          ELSE Ret([r.state EXCEPT !.historyIndex = @ - 1, !.isDirty = TRUE],
                   r.heap, RetBool(TRUE))

redo(W) ==
  LET st == W.state
  IN IF st.historyIndex >= Len(st.historyStack) - 1 THEN Ret(st, W.heap, RetBool(FALSE))
     ELSE
       LET st1 == [st EXCEPT !.historyIndex = @ + 1]
           r == entryRedo([state |-> st1, heap |-> W.heap],
                          At(st1.historyStack, st1.historyIndex))
       IN IF r.threw THEN Ret(r.state, r.heap, Threw)
          ELSE Ret([r.state EXCEPT !.isDirty = TRUE], r.heap, RetBool(TRUE))


----------------------------------------------------------------------------
(* Project operations: newProject, the flat session format *)

\* newProject built on the live state instead of createDefaultState(): the
\* history stack and its cursor are carried over
newProject_KeepHistory(W, width, height, name) ==
  LET d == createDefaultState(W.heap)
      st0 == [d.state EXCEPT !.historyStack = W.state.historyStack,
                             !.historyIndex = W.state.historyIndex]
      w == OrElse(width, 0)
      h == OrElse(height, 0)
      st1 == IF w # 0 THEN [st0 EXCEPT !.width = ClampWidth(w)] ELSE st0
      st2 == IF h # 0 THEN [st1 EXCEPT !.height = ClampHeight(h)] ELSE st1
      st3 == IF Len(name) > 0 /\ name[1] # "" THEN [st2 EXCEPT !.name = name[1]] ELSE st2
  IN Ret([st3 EXCEPT !.isDirty = FALSE], d.heap, RetVoid)

\* `if (options?.width)`: an omitted or zero option is skipped
newProject(W, width, height, name) ==
  LET d == createDefaultState(W.heap)
      w == OrElse(width, 0)
      h == OrElse(height, 0)
      st1 == IF w # 0 THEN [d.state EXCEPT !.width = ClampWidth(w)] ELSE d.state
      st2 == IF h # 0 THEN [st1 EXCEPT !.height = ClampHeight(h)] ELSE st1
      st3 == IF Len(name) > 0 /\ name[1] # "" THEN [st2 EXCEPT !.name = name[1]] ELSE st2
  IN Ret([st3 EXCEPT !.isDirty = FALSE], d.heap, RetVoid)

\* A flat session document (SessionData).  Optional fields are None or Some(v):
\*   [version, name, description, canvas, animation, tools, typography, ui]
\*   canvas    = [width, height, canvasBackgroundColor, showGrid]
\*   animation = [frames, currentFrameIndex, frameRate, looping]
\*   frame     = [id, name, duration, data, thumbnail]

\* CellSchema
ValidCell(cell) == cell.char # "" /\ cell.color # ""

\* SessionDataSchema accepts the document
SessionDataValid(data) ==
  /\ data.canvas.width >= MIN_WIDTH /\ data.canvas.width <= MAX_WIDTH
  /\ data.canvas.height >= MIN_HEIGHT /\ data.canvas.height <= MAX_HEIGHT
  /\ data.animation.currentFrameIndex >= 0
  /\ \A i \in 1..Len(data.animation.frames) :
       LET f == data.animation.frames[i]
       IN Len(f.data) > 0 => \A k \in DOMAIN f.data[1] : ValidCell(f.data[1][k])

\* SessionDataSchema.parse: the defaults the schema fills in
SessionDataParse(data) ==
  [data EXCEPT !.version = Some(OrElse(@, "1.0.0")),
               !.canvas.showGrid = Some(OrElse(@, TRUE))]

\* validated.animation.frames.map((f, i) => ({ id, name, duration, data }))
RECURSIVE LoadFrames(_, _, _, _)
LoadFrames(hp, docFrames, i, acc) ==
  IF i > Len(docFrames) THEN [heap |-> hp, frames |-> acc]
  ELSE LET f == docFrames[i]
           hp1 == NewData(hp, OrElse(f.data, EmptyData))
           hp2 == NewFrame(hp1, [id |-> f.id,
                                 name |-> OrElse(f.name, <<"Frame", i>>),
                                 duration |-> OrElse(f.duration, DEFAULT_FRAME_DURATION),
                                 data |-> NextData(hp)])
       IN LoadFrames(hp2, docFrames, i + 1, Append(acc, LastFrame(hp2)))

ZodError == [threw |-> "ZodError"]

\* loadFromSessionData that resets the state before it validates
loadFromSessionData_ResetFirst(W, data, filePath) ==
  LET d == createDefaultState(W.heap)
  IN Ret(d.state, d.heap, IF SessionDataValid(data) THEN RetVoid ELSE ZodError)

loadFromSessionData(W, data, filePath) ==
  IF ~SessionDataValid(data) THEN Ret(W.state, W.heap, ZodError)
  ELSE
    LET validated == SessionDataParse(data)
        d == createDefaultState(W.heap)
        l == LoadFrames(d.heap, validated.animation.frames, 1, <<>>)
        \* if (this.state.frames.length === 0) this.state.frames = [createDefaultFrame()]
        hp == IF Len(l.frames) = 0 THEN createDefaultFrame(l.heap) ELSE l.heap
        frames == IF Len(l.frames) = 0 THEN <<LastFrame(hp)>> ELSE l.frames
        st == [d.state EXCEPT
                 !.name = OrElse(validated.name, "Untitled Project"),
                 !.description = OrElse(validated.description, ""),
                 !.filePath = filePath,
                 !.width = validated.canvas.width,
                 !.height = validated.canvas.height,
                 !.backgroundColor = validated.canvas.canvasBackgroundColor,
                 !.showGrid = OrElse(validated.canvas.showGrid, TRUE),
                 !.frames = frames,
                 !.currentFrameIndex = Min(validated.animation.currentFrameIndex, Len(frames) - 1),
                 !.frameRate = OrElse(validated.animation.frameRate, DEFAULT_FRAME_RATE),
                 !.looping = OrElse(validated.animation.looping, TRUE),
                 !.toolState = OrElse(validated.tools, @),
                 !.typography = OrElse(validated.typography, @),
                 !.historyStack = <<>>,
                 !.historyIndex = -1,
                 !.isDirty = FALSE]
    IN Ret(st, hp, RetVoid)

toSessionData(W) ==
  LET st == W.state
      hp == W.heap
  IN [version |-> Some("1.0.0"),
      name |-> Some(st.name),
      \* this.state.description || undefined
      description |-> IF st.description = "" THEN None ELSE Some(st.description),
      canvas |-> [width |-> st.width, height |-> st.height,
                  canvasBackgroundColor |-> st.backgroundColor,
                  showGrid |-> Some(st.showGrid)],
      animation |->
        [frames |-> [i \in 1..Len(st.frames) |->
                       LET f == hp.frames[st.frames[i]]
                       IN [id |-> f.id, name |-> Some(f.name), duration |-> Some(f.duration),
                           data |-> IF f.data = Undefined THEN None ELSE Some(hp.data[f.data]),
                           thumbnail |-> None]],
         currentFrameIndex |-> st.currentFrameIndex,
         frameRate |-> Some(st.frameRate),
         looping |-> Some(st.looping)],
      tools |-> Some(st.toolState),
      typography |-> Some(st.typography),
      ui |-> None]


----------------------------------------------------------------------------
(* Layers and content frames (v2).  A layer is a record in state.layers;    *)
(* its content frames are objects on the heap (heap.cframes), since the     *)
(* history closures of the cell operations capture them by reference.       *)

\* what a call returning an object (or null) returned
RetObj(id) == [obj |-> id]
RetNull == [null |-> TRUE]
IsNull(r) == "null" \in DOMAIN r

\* generateLayerId(), generateContentFrameId(), ...: fresh identifiers; the
\* values drawn from crypto.randomUUID() are taken to be pairwise distinct
FreshId(hp, kind) == <<kind, hp.ids + 1>>
TakeId(hp) == [hp EXCEPT !.ids = @ + 1]

NewContentFrame(hp, cf) == [hp EXCEPT !.cframes = Append(@, cf)]
LastContentFrame(hp) == Len(hp.cframes)

\* Array.prototype.sort with a numeric comparator: a stable sort by key
InsertByKey(acc, x, Key(_)) ==
  LET later == {j \in 1..Len(acc) : Key(acc[j]) > Key(x)}
      p == IF later = {} THEN Len(acc) + 1
           ELSE CHOOSE j \in later : \A k \in later : j <= k
  IN SubSeq(acc, 1, p - 1) \o <<x>> \o SubSeq(acc, p, Len(acc))

RECURSIVE SortContentFrames(_, _, _, _)
\* layer.contentFrames.sort((a, b) => a.startFrame - b.startFrame)
SortContentFrames(hp, refs, i, acc) ==
  IF i > Len(refs) THEN acc
  ELSE SortContentFrames(hp, refs, i + 1,
         InsertByKey(acc, refs[i], LAMBDA r : hp.cframes[r].startFrame))

\* layer.contentFrames.find(cf => cf.id === contentFrameId): position, 0 if none
FindContentFrame(hp, layer, contentFrameId) ==
  LET hits == {i \in 1..Len(layer.contentFrames) :
                 hp.cframes[layer.contentFrames[i]].id = contentFrameId}
  IN IF hits = {} THEN 0 ELSE CHOOSE i \in hits : \A k \in hits : i <= k

createDefaultLayer(hp, name, canvasWidth, canvasHeight) ==
  LET layerId == FreshId(hp, "layer")
      hp1 == TakeId(hp)
      hp2 == NewData(hp1, EmptyData)
      hp3 == NewContentFrame(TakeId(hp2),
               [id |-> FreshId(hp2, "cf"), name |-> <<"Frame", 1>>,
                startFrame |-> 0, durationFrames |-> 1,
                data |-> NextData(hp1), hidden |-> FALSE])
  IN [heap |-> hp3,
      layer |-> [id |-> layerId, name |-> name, visible |-> TRUE, solo |-> FALSE,
                 locked |-> FALSE, opacity |-> 100,
                 contentFrames |-> <<LastContentFrame(hp3)>>,
                 propertyTracks |-> <<>>,
                 staticProperties |->
                   Some(("transform.anchorPoint.x" :> canvasWidth \div 2)
                          @@ ("transform.anchorPoint.y" :> canvasHeight \div 2)),
                 parentGroupId |-> None]]

addLayer(W, name) ==
  LET st == W.state
      c == createDefaultLayer(W.heap, OrElse(name, <<"Layer", Len(st.layers) + 1>>),
                              st.width, st.height)
      st1 == [st EXCEPT !.layers = Append(@, c.layer),
                        !.activeLayerId = Some(c.layer.id)]
      st2 == IF st1.timelineConfig.durationFrames < 1
             THEN [st1 EXCEPT !.timelineConfig.durationFrames = DEFAULT_TIMELINE_DURATION]
             ELSE st1
  IN Ret([st2 EXCEPT !.isDirty = TRUE], c.heap, RetObj(c.layer.id))

\* the overlap test of addContentFrame / updateContentFrameTiming against the
\* content frames `others` of a layer, on the arguments as passed
Overlaps(hp, others, startFrame, endFrame) ==
  \E r \in others :
    LET cf == hp.cframes[r]
    IN startFrame < cf.startFrame + cf.durationFrames /\ endFrame > cf.startFrame

\* the timeline grows to the end of the new interval, as computed from the arguments
GrowTimeline(st, startFrame, durationFrames) ==
  IF startFrame + durationFrames > st.timelineConfig.durationFrames
  THEN [st EXCEPT !.timelineConfig.durationFrames = startFrame + durationFrames]
  ELSE st

addContentFrame(W, layerId, startFrame, durationFrames, data) ==
  LET st == W.state
      hp == W.heap
      li == FindLayer(st, layerId)
  IN IF li = 0 THEN Ret(st, hp, RetNull)
     ELSE
       LET layer == st.layers[li]
           endFrame == startFrame + durationFrames
       IN IF Overlaps(hp, {layer.contentFrames[i] : i \in 1..Len(layer.contentFrames)},
                      startFrame, endFrame)
          THEN Ret(st, hp, RetNull)
          ELSE
            LET hp1 == NewData(hp, OrElse(data, EmptyData))
                cfId == FreshId(hp1, "cf")
                hp2 == NewContentFrame(TakeId(hp1),
                         [id |-> cfId, name |-> <<"Frame", Len(layer.contentFrames) + 1>>,
                          startFrame |-> startFrame,
                          durationFrames |-> Max(1, durationFrames),
                          data |-> NextData(hp), hidden |-> FALSE])
                pushed == Append(layer.contentFrames, LastContentFrame(hp2))
                st1 == [st EXCEPT !.layers[li].contentFrames =
                                     SortContentFrames(hp2, pushed, 1, <<>>)]
                st2 == GrowTimeline(st1, startFrame, durationFrames)
            IN Ret([st2 EXCEPT !.isDirty = TRUE], hp2, RetObj(cfId))

removeContentFrame(W, layerId, contentFrameId) ==
  LET st == W.state
      hp == W.heap
      li == FindLayer(st, layerId)
  IN IF li = 0 THEN Ret(st, hp, RetBool(FALSE))
     ELSE
       LET index == FindContentFrame(hp, st.layers[li], contentFrameId) - 1
       IN IF index < 0 THEN Ret(st, hp, RetBool(FALSE))
          ELSE Ret([st EXCEPT !.layers[li].contentFrames = Splice(@, index, 1, <<>>),
                              !.isDirty = TRUE], hp, RetBool(TRUE))

updateContentFrameTiming(W, layerId, contentFrameId, startFrame, durationFrames) ==
  LET st == W.state
      hp == W.heap
      li == FindLayer(st, layerId)
  IN IF li = 0 THEN Ret(st, hp, RetBool(FALSE))
     ELSE
       LET layer == st.layers[li]
           ci == FindContentFrame(hp, layer, contentFrameId)
       IN IF ci = 0 THEN Ret(st, hp, RetBool(FALSE))
          ELSE
            LET endFrame == startFrame + durationFrames
                \* `if (other.id === contentFrameId) continue`
                others == {layer.contentFrames[i] : i \in 1..Len(layer.contentFrames)}
                            \ {r \in 1..Len(hp.cframes) : hp.cframes[r].id = contentFrameId}
            IN IF Overlaps(hp, others, startFrame, endFrame)
               THEN Ret(st, hp, RetBool(FALSE))
               ELSE
                 LET hp1 == [hp EXCEPT
                               !.cframes[layer.contentFrames[ci]].startFrame = startFrame,
                               !.cframes[layer.contentFrames[ci]].durationFrames =
                                  Max(1, durationFrames)]
                     st1 == GrowTimeline(st, startFrame, durationFrames)
                     st2 == [st1 EXCEPT !.layers[li].contentFrames =
                                          SortContentFrames(hp1, @, 1, <<>>)]
                 IN Ret([st2 EXCEPT !.isDirty = TRUE], hp1, RetBool(TRUE))

----------------------------------------------------------------------------
(* Property tracks and keyframes.  A track is a record of its layer:        *)
(* [id, propertyPath, keyframes, loopKeyframes]; a keyframe is              *)
(* [id, frame, value, easing].                                              *)

\* layer.propertyTracks.find(t => t.propertyPath === propertyPath): position, 0 if none
FindTrackByPath(layer, propertyPath) ==
  LET hits == {i \in 1..Len(layer.propertyTracks) :
                 layer.propertyTracks[i].propertyPath = propertyPath}
  IN IF hits = {} THEN 0 ELSE CHOOSE i \in hits : \A k \in hits : i <= k

\* layer.propertyTracks.find(t => t.id === trackId): position, 0 if none
FindTrack(layer, trackId) ==
  LET hits == {i \in 1..Len(layer.propertyTracks) : layer.propertyTracks[i].id = trackId}
  IN IF hits = {} THEN 0 ELSE CHOOSE i \in hits : \A k \in hits : i <= k

\* track.keyframes.find(kf => kf.id === keyframeId): position, 0 if none
FindKeyframe(track, keyframeId) ==
  LET hits == {i \in 1..Len(track.keyframes) : track.keyframes[i].id = keyframeId}
  IN IF hits = {} THEN 0 ELSE CHOOSE i \in hits : \A k \in hits : i <= k

RECURSIVE SortKeyframes(_, _, _)
\* track.keyframes.sort((a, b) => a.frame - b.frame)
SortKeyframes(kfs, i, acc) ==
  IF i > Len(kfs) THEN acc
  ELSE SortKeyframes(kfs, i + 1, InsertByKey(acc, kfs[i], LAMBDA k : k.frame))

addPropertyTrack(W, layerId, propertyPath) ==
  LET st == W.state
      hp == W.heap
      li == FindLayer(st, layerId)
  IN IF li = 0 THEN Ret(st, hp, RetNull)
     ELSE IF FindTrackByPath(st.layers[li], propertyPath) # 0 THEN Ret(st, hp, RetNull)
     ELSE LET track == [id |-> FreshId(hp, "track"), propertyPath |-> propertyPath,
                        keyframes |-> <<>>, loopKeyframes |-> FALSE]
          IN Ret([st EXCEPT !.layers[li].propertyTracks = Append(@, track),
                            !.isDirty = TRUE],
                 TakeId(hp), RetObj(track.id))

addKeyframe(W, layerId, propertyPath, frame, value, easing) ==
  LET li == FindLayer(W.state, layerId)
  IN IF li = 0 THEN Ret(W.state, W.heap, RetNull)
     ELSE
       LET found == FindTrackByPath(W.state.layers[li], propertyPath)
           \* `if (!track) { const newTrack = this.addPropertyTrack(...) }`
           A == IF found = 0 THEN addPropertyTrack(W, layerId, propertyPath)
                ELSE Ret(W.state, W.heap, RetVoid)
       IN IF IsNull(A.ret) THEN A
          ELSE
            LET st == A.state
                hp == A.heap
                ti == IF found = 0 THEN Len(st.layers[li].propertyTracks) ELSE found
                kept == SelectSeq(st.layers[li].propertyTracks[ti].keyframes,
                                  LAMBDA k : k.frame # frame)
                kf == [id |-> FreshId(hp, "kf"), frame |-> frame, value |-> value,
                       easing |-> OrElse(easing, [type |-> "linear"])]
                st1 == [st EXCEPT !.layers[li].propertyTracks[ti].keyframes =
                                     SortKeyframes(Append(kept, kf), 1, <<>>)]
                st2 == IF frame >= st1.timelineConfig.durationFrames
                       THEN [st1 EXCEPT !.timelineConfig.durationFrames = frame + 1]
                       ELSE st1
            IN Ret([st2 EXCEPT !.isDirty = TRUE], TakeId(hp), RetObj(kf.id))

removeKeyframe(W, layerId, trackId, keyframeId) ==
  LET st == W.state
      hp == W.heap
      li == FindLayer(st, layerId)
  IN IF li = 0 THEN Ret(st, hp, RetBool(FALSE))
     ELSE
       LET ti == FindTrack(st.layers[li], trackId)
       IN IF ti = 0 THEN Ret(st, hp, RetBool(FALSE))
          ELSE
            LET index == FindKeyframe(st.layers[li].propertyTracks[ti], keyframeId) - 1
            IN IF index < 0 THEN Ret(st, hp, RetBool(FALSE))
               ELSE Ret([st EXCEPT !.layers[li].propertyTracks[ti].keyframes =
                                      Splice(@, index, 1, <<>>),
                                   !.isDirty = TRUE], hp, RetBool(TRUE))

\* updates = [frame, value, easing], each None or Some(v)
updateKeyframe(W, layerId, trackId, keyframeId, updates) ==
  LET st == W.state
      hp == W.heap
      li == FindLayer(st, layerId)
  IN IF li = 0 THEN Ret(st, hp, RetBool(FALSE))
     ELSE
       LET ti == FindTrack(st.layers[li], trackId)
       IN IF ti = 0 THEN Ret(st, hp, RetBool(FALSE))
          ELSE
            LET ki == FindKeyframe(st.layers[li].propertyTracks[ti], keyframeId)
            IN IF ki = 0 THEN Ret(st, hp, RetBool(FALSE))
               ELSE
                 LET kf == st.layers[li].propertyTracks[ti].keyframes[ki]
                     kf1 == [kf EXCEPT !.frame = OrElse(updates.frame, @),
                                       !.value = OrElse(updates.value, @),
                                       !.easing = OrElse(updates.easing, @)]
                     kfs == [st.layers[li].propertyTracks[ti].keyframes EXCEPT ![ki] = kf1]
                 IN Ret([st EXCEPT !.layers[li].propertyTracks[ti].keyframes =
                                      SortKeyframes(kfs, 1, <<>>),
                                   !.isDirty = TRUE], hp, RetBool(TRUE))

----------------------------------------------------------------------------
(* Layer groups and the selection *)

createGroup(W, name, layerIds) ==
  LET st == W.state
      hp == W.heap
      group == [id |-> FreshId(hp, "group"),
                name |-> OrElse(name, <<"Group", Len(st.layerGroups) + 1>>),
                childLayerIds |-> OrElse(layerIds, <<>>),
                visible |-> TRUE, solo |-> FALSE, locked |-> FALSE, collapsed |-> FALSE]
      children == {group.childLayerIds[i] : i \in 1..Len(group.childLayerIds)}
      st1 == [st EXCEPT !.layerGroups = Append(@, group),
                        !.layers = [i \in 1..Len(st.layers) |->
                                      IF st.layers[i].id \in children
                                      THEN [st.layers[i] EXCEPT !.parentGroupId = Some(group.id)]
                                      ELSE st.layers[i]]]
  IN Ret([st1 EXCEPT !.isDirty = TRUE], TakeId(hp), RetObj(group.id))

setSelection(W, selection) ==
  Ret([W.state EXCEPT !.selection = selection], W.heap, RetVoid)

----------------------------------------------------------------------------
(* The layered session format (SessionDataV2).  Optional fields are None or *)
(* Some(v):                                                                 *)
(*   [version, name, description, metadata, canvas, timeline, layers,       *)
(*    layerGroups, tools, typography, ui]                                   *)
(*   timeline = [frameRate, durationFrames, looping]                        *)
(*   layer    = [id, name, visible, solo, locked, opacity, parentGroupId,   *)
(*               contentFrames, propertyTracks, staticProperties,           *)
(*               syncKeyframesToFrames]                                     *)
(*   contentFrame = [id, name, startFrame, durationFrames, data, hidden]    *)

\* SessionDataV2Schema accepts the document
SessionDataV2Valid(data) ==
  /\ data.version = Some("2.0.0")
  /\ data.canvas.width >= MIN_WIDTH /\ data.canvas.width <= MAX_WIDTH
  /\ data.canvas.height >= MIN_HEIGHT /\ data.canvas.height <= MAX_HEIGHT
  /\ OrElse(data.timeline.frameRate, DEFAULT_FRAME_RATE) \in 1..120
  /\ OrElse(data.timeline.durationFrames, DEFAULT_TIMELINE_DURATION) >= 1
  /\ \A i \in 1..Len(data.layers) :
       LET l == data.layers[i]
       IN /\ \A c \in 1..Len(l.contentFrames) :
               LET cf == l.contentFrames[c]
               IN /\ cf.startFrame >= 0
                  /\ cf.durationFrames >= 1
                  /\ Len(cf.data) > 0 => \A k \in DOMAIN cf.data[1] : ValidCell(cf.data[1][k])
          /\ \A t \in 1..Len(l.propertyTracks) :
               \A k \in 1..Len(l.propertyTracks[t].keyframes) :
                 l.propertyTracks[t].keyframes[k].frame >= 0

\* l.propertyTracks.map(pt => ({ id, propertyPath, loopKeyframes, keyframes }))
LoadTracks(tracks) ==
  [t \in 1..Len(tracks) |->
     [id |-> tracks[t].id, propertyPath |-> tracks[t].propertyPath,
      loopKeyframes |-> OrElse(tracks[t].loopKeyframes, FALSE),
      keyframes |-> [k \in 1..Len(tracks[t].keyframes) |->
                       [id |-> tracks[t].keyframes[k].id,
                        frame |-> tracks[t].keyframes[k].frame,
                        value |-> tracks[t].keyframes[k].value,
                        easing |-> tracks[t].keyframes[k].easing]]]]

\* l.contentFrames.map(cf => ({ id, name, startFrame, durationFrames, data, hidden }))
RECURSIVE LoadContentFrames(_, _, _, _)
LoadContentFrames(hp, docFrames, i, acc) ==
  IF i > Len(docFrames) THEN [heap |-> hp, refs |-> acc]
  ELSE LET cf == docFrames[i]
           hp1 == NewData(hp, OrElse(cf.data, EmptyData))
           hp2 == NewContentFrame(hp1,
                    [id |-> cf.id, name |-> cf.name, startFrame |-> cf.startFrame,
                     durationFrames |-> cf.durationFrames, data |-> NextData(hp),
                     hidden |-> OrElse(cf.hidden, FALSE)])
       IN LoadContentFrames(hp2, docFrames, i + 1, Append(acc, LastContentFrame(hp2)))

\* validated.layers.map(l => ({ ... }))
RECURSIVE LoadLayers(_, _, _, _)
LoadLayers(hp, docLayers, i, acc) ==
  IF i > Len(docLayers) THEN [heap |-> hp, layers |-> acc]
  ELSE LET l == docLayers[i]
           c == LoadContentFrames(hp, l.contentFrames, 1, <<>>)
           layer == [id |-> l.id, name |-> l.name,
                     visible |-> OrElse(l.visible, TRUE), solo |-> OrElse(l.solo, FALSE),
                     locked |-> OrElse(l.locked, FALSE), opacity |-> OrElse(l.opacity, 100),
                     parentGroupId |-> l.parentGroupId,
                     syncKeyframesToFrames |-> l.syncKeyframesToFrames,
                     contentFrames |-> c.refs,
                     propertyTracks |-> LoadTracks(l.propertyTracks),
                     staticProperties |-> l.staticProperties]
       IN LoadLayers(c.heap, docLayers, i + 1, Append(acc, layer))

\* (validated.layerGroups ?? []).map(g => ({ ... }))
LoadGroups(groups) ==
  [g \in 1..Len(groups) |->
     [id |-> groups[g].id, name |-> groups[g].name,
      childLayerIds |-> groups[g].childLayerIds,
      visible |-> OrElse(groups[g].visible, TRUE), solo |-> OrElse(groups[g].solo, FALSE),
      locked |-> OrElse(groups[g].locked, FALSE),
      collapsed |-> OrElse(groups[g].collapsed, FALSE)]]

loadFromSessionDataV2(W, data, filePath) ==
  IF ~SessionDataV2Valid(data) THEN Ret(W.state, W.heap, ZodError)
  ELSE
    LET d == createDefaultState(W.heap)
        l == LoadLayers(d.heap, data.layers, 1, <<>>)
        timelineConfig == [frameRate |-> OrElse(data.timeline.frameRate, DEFAULT_FRAME_RATE),
                           durationFrames |-> OrElse(data.timeline.durationFrames,
                                                     DEFAULT_TIMELINE_DURATION)]
        st == [d.state EXCEPT
                 !.name = OrElse(data.name, "Untitled Project"),
                 !.description = OrElse(data.description, ""),
                 !.filePath = filePath,
                 !.width = data.canvas.width,
                 !.height = data.canvas.height,
                 !.backgroundColor = data.canvas.canvasBackgroundColor,
                 !.showGrid = OrElse(data.canvas.showGrid, TRUE),
                 !.timelineConfig = timelineConfig,
                 !.frameRate = timelineConfig.frameRate,
                 !.looping = OrElse(data.timeline.looping, TRUE),
                 !.layers = l.layers,
                 !.layerGroups = LoadGroups(OrElse(data.layerGroups, <<>>)),
                 !.activeLayerId = IF Len(l.layers) > 0 THEN Some(l.layers[1].id)
                                   ELSE Undefined,
                 !.currentFrameIndex = 0,
                 !.toolState = OrElse(data.tools, @),
                 !.typography = OrElse(data.typography, @),
                 !.historyStack = <<>>,
                 !.historyIndex = -1,
                 !.isDirty = FALSE]
    IN Ret(st, l.heap, RetVoid)

----------------------------------------------------------------------------
(* Browser state sync.  A snapshot is the parsed JSON message:              *)
(*   [canvas, project, layers, layerGroups, timeline, activeLayerId,        *)
(*    animation], each an option; the objects it holds are new ones.        *)

\* data.animation.frames.map((frame, index) => ({ id, name, duration, data }))
\* with `||` defaults: a missing id is generated, a missing name is
\* `Frame ${index + 1}`, a missing or zero duration is 100, missing data is {}
RECURSIVE SnapshotFrames(_, _, _, _)
SnapshotFrames(hp, frames, i, acc) ==
  IF i > Len(frames) THEN [heap |-> hp, frames |-> acc]
  ELSE LET f == frames[i]
           hp1 == NewData(hp, OrElse(f.data, EmptyData))
           hp2 == NewFrame(hp1, [id |-> OrElse(f.id, FrameId(LastFrame(hp1) + 1)),
                                 name |-> OrElse(f.name, <<"Frame", i>>),
                                 duration |-> IF OrElse(f.duration, 0) = 0 THEN 100
                                              ELSE f.duration[1],
                                 data |-> NextData(hp)])
       IN SnapshotFrames(hp2, frames, i + 1, Append(acc, LastFrame(hp2)))

\* the content frames of a snapshot layer as objects of the heap
RECURSIVE SnapshotContentFrames(_, _, _, _)
SnapshotContentFrames(hp, frames, i, acc) ==
  IF i > Len(frames) THEN [heap |-> hp, refs |-> acc]
  ELSE LET hp1 == NewData(hp, frames[i].data)
           hp2 == NewContentFrame(hp1, [frames[i] EXCEPT !.data = NextData(hp)])
       IN SnapshotContentFrames(hp2, frames, i + 1, Append(acc, LastContentFrame(hp2)))

\* this.state.layers = data.layers: the snapshot's layer objects, as they are
RECURSIVE SnapshotLayers(_, _, _, _)
SnapshotLayers(hp, layers, i, acc) ==
  IF i > Len(layers) THEN [heap |-> hp, layers |-> acc]
  ELSE LET c == SnapshotContentFrames(hp, layers[i].contentFrames, 1, <<>>)
       IN SnapshotLayers(c.heap, layers, i + 1,
                         Append(acc, [layers[i] EXCEPT !.contentFrames = c.refs]))

loadFromBrowserSnapshot(W, data) ==
  IF data = None THEN Ret(W.state, W.heap, RetVoid)
  ELSE
    LET snapshot == data[1]
        st == W.state
        st1 == IF snapshot.canvas = None THEN st
               ELSE [st EXCEPT
                       !.width = OrElse(snapshot.canvas[1].width, @),
                       !.height = OrElse(snapshot.canvas[1].height, @),
                       !.backgroundColor = OrElse(snapshot.canvas[1].backgroundColor, @)]
        st2 == IF snapshot.project = None THEN st1
               ELSE [st1 EXCEPT !.name = snapshot.project[1].name]
    IN IF snapshot.layers # None /\ Len(snapshot.layers[1]) > 0
       THEN LET l == SnapshotLayers(W.heap, snapshot.layers[1], 1, <<>>)
                st3 == [st2 EXCEPT
                          !.layers = l.layers,
                          !.layerGroups = OrElse(snapshot.layerGroups, <<>>),
                          !.activeLayerId =
                             IF snapshot.activeLayerId # None THEN snapshot.activeLayerId
                             ELSE Some(l.layers[1].id)]
                st4 == IF snapshot.timeline = None THEN st3
                       ELSE LET t == snapshot.timeline[1]
                                config == [frameRate |-> OrElse(t.frameRate, 12),
                                           durationFrames |-> OrElse(t.durationFrames, 12)]
                            IN [st3 EXCEPT !.timelineConfig = config,
                                           !.frameRate = config.frameRate,
                                           !.looping = OrElse(t.looping, TRUE)]
            IN Ret(st4, l.heap, RetVoid)
       ELSE IF snapshot.animation # None /\ Len(snapshot.animation[1].frames) > 0
       THEN LET f == SnapshotFrames(W.heap, snapshot.animation[1].frames, 1, <<>>)
            IN Ret([st2 EXCEPT
                      !.frames = f.frames,
                      !.currentFrameIndex =
                         Min(OrElse(snapshot.animation[1].currentFrameIndex, 0),
                             Len(f.frames) - 1)],
                   f.heap, RetVoid)
       ELSE Ret(st2, W.heap, RetVoid)

----------------------------------------------------------------------------
(* Format detection and the automatic loader.  Raw data (`unknown`) is      *)
(* [kind |-> "null"], [kind |-> "string"], [kind |-> "number"] or           *)
(* [kind |-> "object", fields |-> r] where DOMAIN r is the set of           *)
(* properties the object has.                                               *)

\* typeof data
TypeOf(data) == IF data.kind = "null" THEN "object" ELSE data.kind

\* detectSessionVersion that looks at the layers field only
detectSessionVersion_LayersOnly(data) ==
  IF TypeOf(data) # "object" \/ data.kind = "null" THEN "unknown"
  ELSE IF "layers" \in DOMAIN data.fields THEN "2.0.0"
  ELSE IF "animation" \in DOMAIN data.fields THEN "1.0.0"
  ELSE "unknown"

detectSessionVersion(data) ==
  IF TypeOf(data) # "object" \/ data.kind = "null" THEN "unknown"
  ELSE LET session == data.fields
       IN IF "version" \in DOMAIN session /\ session.version = "2.0.0"
               /\ "layers" \in DOMAIN session THEN "2.0.0"
          ELSE IF "animation" \in DOMAIN session THEN "1.0.0"
          ELSE "unknown"

\* session[k], undefined when the property is absent
RawField(session, k) == IF k \in DOMAIN session THEN Some(session[k]) ELSE None

\* z.object(...) accepts the raw value this far: it is an object and has
\* the required properties
HasShape(data, required) ==
  data.kind = "object" /\ required \subseteq DOMAIN data.fields

\* the raw object read as SessionData: absent optional properties are undefined
AsSessionData(session) ==
  [version |-> RawField(session, "version"), name |-> RawField(session, "name"),
   description |-> RawField(session, "description"),
   canvas |-> session.canvas, animation |-> session.animation,
   tools |-> None, typography |-> None, ui |-> None]

\* the raw object read as SessionDataV2
AsSessionDataV2(session) ==
  [version |-> RawField(session, "version"), name |-> RawField(session, "name"),
   description |-> RawField(session, "description"), metadata |-> None,
   canvas |-> session.canvas, timeline |-> session.timeline,
   layers |-> session.layers, layerGroups |-> RawField(session, "layerGroups"),
   tools |-> None, typography |-> None, ui |-> None]

loadSessionAuto(W, data, filePath) ==
  LET version == detectSessionVersion(data)
  IN IF version = "2.0.0"
     THEN IF HasShape(data, {"version", "canvas", "timeline", "layers"})
          THEN loadFromSessionDataV2(W, AsSessionDataV2(data.fields), filePath)
          ELSE Ret(W.state, W.heap, ZodError)
     ELSE IF HasShape(data, {"canvas", "animation"})
          THEN loadFromSessionData(W, AsSessionData(data.fields), filePath)
          ELSE Ret(W.state, W.heap, ZodError)

----------------------------------------------------------------------------
(* Layer list operations, timeline configuration, the dirty flag *)

\* removeLayer without the test for the last remaining layer
removeLayer_NoLastGuard(W, layerId) ==
  LET st == W.state
      hp == W.heap
      index == FindLayer(st, layerId) - 1
  IN IF index < 0 THEN Ret(st, hp, RetBool(FALSE))
     ELSE
       LET layers == Splice(st.layers, index, 1, <<>>)
           filtered == [g \in 1..Len(st.layerGroups) |->
                          [st.layerGroups[g] EXCEPT !.childLayerIds =
                             SelectSeq(@, LAMBDA id : id # layerId)]]
           groups == SelectSeq(filtered, LAMBDA g : Len(g.childLayerIds) > 0)
           active == IF st.activeLayerId = Some(layerId)
                     THEN LET k == Min(index, Len(layers) - 1)
                          IN IF k >= 0 /\ k < Len(layers) THEN Some(layers[k + 1].id)
                             ELSE Undefined
                     ELSE st.activeLayerId
       IN Ret([st EXCEPT !.layers = layers, !.layerGroups = groups,
                         !.activeLayerId = active, !.isDirty = TRUE],
              hp, RetBool(TRUE))

\* removeLayer that leaves activeLayerId as it is
removeLayer_KeepActive(W, layerId) ==
  LET st == W.state
      hp == W.heap
      index == FindLayer(st, layerId) - 1
  IN IF index < 0 THEN Ret(st, hp, RetBool(FALSE))
     ELSE IF Len(st.layers) <= 1 THEN Ret(st, hp, RetBool(FALSE))
     ELSE
       LET layers == Splice(st.layers, index, 1, <<>>)
           filtered == [g \in 1..Len(st.layerGroups) |->
                          [st.layerGroups[g] EXCEPT !.childLayerIds =
                             SelectSeq(@, LAMBDA id : id # layerId)]]
           groups == SelectSeq(filtered, LAMBDA g : Len(g.childLayerIds) > 0)
       IN Ret([st EXCEPT !.layers = layers, !.layerGroups = groups, !.isDirty = TRUE],
              hp, RetBool(TRUE))

removeLayer(W, layerId) ==
  LET st == W.state
      hp == W.heap
      index == FindLayer(st, layerId) - 1
  IN IF index < 0 THEN Ret(st, hp, RetBool(FALSE))
     ELSE IF Len(st.layers) <= 1 THEN Ret(st, hp, RetBool(FALSE))
     ELSE
       LET layers == Splice(st.layers, index, 1, <<>>)
           filtered == [g \in 1..Len(st.layerGroups) |->
                          [st.layerGroups[g] EXCEPT !.childLayerIds =
                             SelectSeq(@, LAMBDA id : id # layerId)]]
           groups == SelectSeq(filtered, LAMBDA g : Len(g.childLayerIds) > 0)
           active == IF st.activeLayerId = Some(layerId)
                     THEN LET k == Min(index, Len(layers) - 1)
                          IN IF k >= 0 /\ k < Len(layers) THEN Some(layers[k + 1].id)
                             ELSE Undefined
                     ELSE st.activeLayerId
       IN Ret([st EXCEPT !.layers = layers, !.layerGroups = groups,
                         !.activeLayerId = active, !.isDirty = TRUE],
              hp, RetBool(TRUE))

RECURSIVE CopyContentFrames_SharedData(_, _, _, _)
\* a shallow copy: each new content frame keeps the data object of its source
CopyContentFrames_SharedData(hp, refs, i, acc) ==
  IF i > Len(refs) THEN [heap |-> hp, refs |-> acc]
  ELSE LET cf == hp.cframes[refs[i]]
           hp2 == NewContentFrame(TakeId(hp), [cf EXCEPT !.id = FreshId(hp, "cf")])
       IN CopyContentFrames_SharedData(hp2, refs, i + 1, Append(acc, LastContentFrame(hp2)))

RECURSIVE CopyContentFrames(_, _, _, _)
\* the content frames of the JSON copy, each given a new id
CopyContentFrames(hp, refs, i, acc) ==
  IF i > Len(refs) THEN [heap |-> hp, refs |-> acc]
  ELSE LET cf == hp.cframes[refs[i]]
           hp1 == NewData(hp, Spread(hp, cf.data))
           hp2 == NewContentFrame(TakeId(hp1),
                    [cf EXCEPT !.id = FreshId(hp1, "cf"), !.data = NextData(hp)])
       IN CopyContentFrames(hp2, refs, i + 1, Append(acc, LastContentFrame(hp2)))

RECURSIVE CopyTracks(_, _, _, _)
\* the property tracks of the JSON copy: a new id for each track, then for
\* each of its keyframes
CopyTracks(hp, tracks, i, acc) ==
  IF i > Len(tracks) THEN [heap |-> hp, tracks |-> acc]
  ELSE LET pt == tracks[i]
           n == Len(pt.keyframes)
           copy == [pt EXCEPT !.id = FreshId(hp, "track"),
                              !.keyframes = [k \in 1..n |->
                                 [pt.keyframes[k] EXCEPT !.id = <<"kf", hp.ids + 1 + k>>]]]
       IN CopyTracks([hp EXCEPT !.ids = @ + 1 + n], tracks, i + 1, Append(acc, copy))

duplicateLayer(W, layerId) ==
  LET st == W.state
      hp == W.heap
      si == FindLayer(st, layerId)
  IN IF si = 0 THEN Ret(st, hp, RetNull)
     ELSE
       LET source == st.layers[si]
           newId == FreshId(hp, "layer")
           c == CopyContentFrames(TakeId(hp), source.contentFrames, 1, <<>>)
           t == CopyTracks(c.heap, source.propertyTracks, 1, <<>>)
           newLayer == [source EXCEPT !.id = newId, !.name = <<source.name, "(copy)">>,
                                      !.contentFrames = c.refs,
                                      !.propertyTracks = t.tracks]
       IN Ret([st EXCEPT !.layers = Splice(@, si, 0, <<newLayer>>),
                         !.activeLayerId = Some(newId), !.isDirty = TRUE],
              t.heap, RetObj(newId))

setActiveLayer(W, layerId) ==
  IF FindLayer(W.state, layerId) = 0 THEN Ret(W.state, W.heap, RetBool(FALSE))
  ELSE Ret([W.state EXCEPT !.activeLayerId = Some(layerId)], W.heap, RetBool(TRUE))

reorderLayers(W, fromIndex, toIndex) ==
  LET st == W.state
  IN IF fromIndex < 0 \/ fromIndex >= Len(st.layers) THEN Ret(st, W.heap, RetBool(FALSE))
     ELSE IF toIndex < 0 \/ toIndex >= Len(st.layers) THEN Ret(st, W.heap, RetBool(FALSE))
     ELSE LET layer == st.layers[fromIndex + 1]
              rest == Splice(st.layers, fromIndex, 1, <<>>)
          IN Ret([st EXCEPT !.layers = Splice(rest, toIndex, 0, <<layer>>),
                            !.isDirty = TRUE], W.heap, RetBool(TRUE))

setLayerLocked(W, layerId, locked) ==
  LET li == FindLayer(W.state, layerId)
  IN IF li = 0 THEN Ret(W.state, W.heap, RetBool(FALSE))
     ELSE Ret([W.state EXCEPT !.layers[li].locked = locked, !.isDirty = TRUE],
              W.heap, RetBool(TRUE))

FindGroup(st, groupId) ==
  LET hits == {i \in 1..Len(st.layerGroups) : st.layerGroups[i].id = groupId}
  IN IF hits = {} THEN 0 ELSE CHOOSE i \in hits : \A k \in hits : i <= k

\* ungroupLayers that clears parentGroupId on every layer
ungroupLayers_ClearAll(W, groupId) ==
  LET st == W.state
      index == FindGroup(st, groupId) - 1
  IN IF index < 0 THEN Ret(st, W.heap, RetBool(FALSE))
     ELSE Ret([st EXCEPT !.layers = [i \in 1..Len(st.layers) |->
                                       [st.layers[i] EXCEPT !.parentGroupId = None]],
                         !.layerGroups = Splice(@, index, 1, <<>>),
                         !.isDirty = TRUE],
              W.heap, RetBool(TRUE))

ungroupLayers(W, groupId) ==
  LET st == W.state
      index == FindGroup(st, groupId) - 1
  IN IF index < 0 THEN Ret(st, W.heap, RetBool(FALSE))
     ELSE
       LET group == st.layerGroups[index + 1]
           children == {group.childLayerIds[i] : i \in 1..Len(group.childLayerIds)}
       IN Ret([st EXCEPT !.layers = [i \in 1..Len(st.layers) |->
                                       IF st.layers[i].id \in children
                                       THEN [st.layers[i] EXCEPT !.parentGroupId = None]
                                       ELSE st.layers[i]],
                         !.layerGroups = Splice(@, index, 1, <<>>),
                         !.isDirty = TRUE],
              W.heap, RetBool(TRUE))

setFrameRate(W, fps) ==
  LET rate == Max(1, Min(120, fps))
  IN Ret([W.state EXCEPT !.timelineConfig.frameRate = rate, !.frameRate = rate,
                         !.isDirty = TRUE], W.heap, RetVoid)

setTimelineDuration(W, frames) ==
  Ret([W.state EXCEPT !.timelineConfig.durationFrames = Max(1, frames),
                      !.isDirty = TRUE], W.heap, RetVoid)

markClean(W) == Ret([W.state EXCEPT !.isDirty = FALSE], W.heap, RetVoid)

----------------------------------------------------------------------------
(* Dispatch layer: tools composed of engine operations *)

\* a tool result: { isError: true, error } or { success: true, ... }
ToolError(message) == [isError |-> TRUE, error |-> message]
ToolSuccess(fields) == [isError |-> FALSE, result |-> fields]
IsToolSuccess(r) == "isError" \in DOMAIN r /\ ~r.isError

\* the remove_layer tool
remove_layer(W, layerId) ==
  LET R == removeLayer(W, layerId)
  IN IF ~IsTrue(R.ret)
     THEN Ret(R.state, R.heap,
              ToolError("Failed to remove layer. It may not exist or may be the last layer."))
     ELSE Ret(R.state, R.heap,
              ToolSuccess([removedLayerId |-> layerId,
                           remainingLayers |-> Len(R.state.layers)]))

\* frames.findIndex(f => f.id === id), -1 if there is none
FindFrameIndex(st, hp, id) ==
  LET hits == {i \in 1..Len(st.frames) : hp.frames[st.frames[i]].id = id}
  IN IF hits = {} THEN -1 ELSE (CHOOSE i \in hits : \A k \in hits : i <= k) - 1

RECURSIVE ApplyModifications(_, _, _, _, _)
\* the loop over `modifications` of copy_frame_and_modify; a modification is
\* [x, y, char, color, bgColor, clear] with optional char, color, bgColor, clear
ApplyModifications(R, mods, i, modified, now) ==
  IF i > Len(mods) THEN [state |-> R.state, heap |-> R.heap, modified |-> modified]
  ELSE
    LET mod == mods[i]
    IN IF ~isInBounds(mod.x, mod.y, R.state.width, R.state.height)
       THEN ApplyModifications(R, mods, i + 1, modified, now)
       ELSE IF OrElse(mod.clear, FALSE)
       THEN ApplyModifications(clearCell(R, mod.x, mod.y, FALSE, now),
                               mods, i + 1, modified + 1, now)
       ELSE LET current == getCell(R, mod.x, mod.y)
            IN ApplyModifications(
                 setCell(R, mod.x, mod.y,
                         [char |-> OrElse(mod.char, current.char),
                          color |-> OrElse(mod.color, current.color),
                          bgColor |-> OrElse(mod.bgColor, current.bgColor)],
                         FALSE, now),
                 mods, i + 1, modified + 1, now)

copy_frame_and_modify(W, sourceIndex, modifications, name, duration, now) ==
  IF sourceIndex < 0 \/ sourceIndex >= Len(W.state.frames)
  THEN Ret(W.state, W.heap, ToolError("Source frame index out of range"))
  ELSE
    LET D == duplicateFrame(W, sourceIndex, FALSE, now)
    IN IF D.ret.ref = Undefined
       THEN Ret(D.state, D.heap, ToolError("Failed to duplicate frame"))
       ELSE
         LET newIndex == FindFrameIndex(D.state, D.heap, D.heap.frames[D.ret.ref].id)
             G == goToFrame(D, newIndex)
             M == ApplyModifications(G, modifications, 1, 0, now)
             N == IF Len(name) > 0 /\ name[1] # <<>>
                  THEN setFrameName(M, newIndex, name[1], FALSE, now) ELSE M
             U == IF Len(duration) > 0 /\ duration[1] # 0
                  THEN setFrameDuration(N, newIndex, duration[1], FALSE, now) ELSE N
         IN Ret(U.state, U.heap,
                ToolSuccess([index |-> newIndex, modificationsApplied |-> M.modified,
                             totalFrames |-> Len(U.state.frames)]))

\* JavaScript a % b: the remainder has the sign of the dividend
JsRem(a, b) == IF a >= 0 THEN a % b ELSE -((-a) % b)

\* where shift_frame_content moves the cell at `key`
ShiftedKey(key, dx, dy, wrap, width, height) ==
  LET p == parseCellKey(key)
      newX == IF wrap THEN JsRem(JsRem(p.x + dx, width) + width, width) ELSE p.x + dx
      newY == IF wrap THEN JsRem(JsRem(p.y + dy, height) + height, height) ELSE p.y + dy
  IN [x |-> newX, y |-> newY, key |-> createCellKey(newX, newY)]

\* newData of shift_frame_content.  Cells inside the canvas never share a
\* target key; for cells outside it the source written last stays, which is
\* any of them here.
ShiftedData(oldData, dx, dy, wrap, width, height) ==
  LET moved == {k \in DOMAIN oldData :
                  LET t == ShiftedKey(k, dx, dy, wrap, width, height)
                  IN isInBounds(t.x, t.y, width, height)}
      targets == {ShiftedKey(k, dx, dy, wrap, width, height).key : k \in moved}
  IN [data |-> [t \in targets |->
                  oldData[CHOOSE k \in moved :
                            ShiftedKey(k, dx, dy, wrap, width, height).key = t]],
      cellsShifted |-> Cardinality(moved),
      cellsLost |-> Cardinality(DOMAIN oldData) - Cardinality(moved)]

shift_frame_content(W, dx, dy, wrap, frameIndex) ==
  LET state0 == W.state
      idx == OrElse(frameIndex, state0.currentFrameIndex)
  IN IF idx < 0 \/ idx >= Len(state0.frames)
     THEN Ret(W.state, W.heap, ToolError("Frame index out of range"))
     ELSE
       LET G == goToFrame(W, idx)
           frame == getCurrentFrame(G)
       IN IF frame = Undefined THEN Ret(G.state, G.heap, Threw)
          ELSE
            LET oldData == Spread(G.heap, G.heap.frames[frame].data)
                n == ShiftedData(oldData, dx, dy, wrap, G.state.width, G.state.height)
                hp1 == NewData(G.heap, n.data)
                hp2 == [hp1 EXCEPT !.frames[frame].data = NextData(G.heap)]
            IN Ret(G.state, hp2,
                   ToolSuccess([cellsShifted |-> n.cellsShifted, cellsLost |-> n.cellsLost]))

\* a tool result together with the broadcastStateChange calls the handler
\* made, in order
ToolOutcome(isError, result, broadcasts) ==
  [isError |-> isError, result |-> result, broadcasts |-> broadcasts]

\* getHistoryInfo()
getHistoryInfo(st) == [canUndo |-> canUndo(st), canRedo |-> canRedo(st)]

\* the set_cell tool
set_cell(W, x, y, char, color, bgColor, now) ==
  IF ~isInBounds(x, y, W.state.width, W.state.height)
  THEN Ret(W.state, W.heap, ToolOutcome(TRUE, [error |-> "out of bounds"], <<>>))
  ELSE
    LET currentCell == getCell(W, x, y)
        newCell == [char |-> OrElse(char, currentCell.char),
                    color |-> OrElse(color, currentCell.color),
                    bgColor |-> OrElse(bgColor, currentCell.bgColor)]
        S == setCell(W, x, y, newCell, TRUE, now)
    IN IF IsThrew(S.ret) THEN S
       ELSE Ret(S.state, S.heap,
                ToolOutcome(FALSE, [success |-> TRUE, cell |-> newCell], <<"set_cell">>))

\* toSet of the set_cells_batch tool: the in-bounds cells, merged with the
\* cells they replace
BatchToSet(W, cells) ==
  LET inside == SelectSeq(cells, LAMBDA c : isInBounds(c.x, c.y, W.state.width, W.state.height))
  IN [i \in 1..Len(inside) |->
        LET c == inside[i]
            currentCell == getCell(W, c.x, c.y)
        IN [x |-> c.x, y |-> c.y,
            cell |-> [char |-> OrElse(c.char, currentCell.char),
                      color |-> OrElse(c.color, currentCell.color),
                      bgColor |-> OrElse(c.bgColor, currentCell.bgColor)]]]

\* the set_cells_batch tool
set_cells_batch(W, cells, now) ==
  IF Len(cells) > 10000
  THEN Ret(W.state, W.heap, ToolOutcome(FALSE, [success |-> FALSE], <<>>))
  ELSE
    LET toSet == BatchToSet(W, cells)
        S == setCells(W, toSet, TRUE, now)
    IN IF IsThrew(S.ret) THEN S
       ELSE Ret(S.state, S.heap,
                ToolOutcome(FALSE, [success |-> TRUE, cellsSet |-> S.ret.num],
                            <<"set_cells_batch">>))

\* the undo tool
undo_tool(W) ==
  LET info == getHistoryInfo(W.state)
  IN IF ~info.canUndo
     THEN Ret(W.state, W.heap, ToolOutcome(FALSE, [success |-> FALSE], <<>>))
     ELSE LET U == undo(W)
          IN IF IsThrew(U.ret) THEN U
             ELSE Ret(U.state, U.heap, ToolOutcome(FALSE, [success |-> IsTrue(U.ret)], <<>>))

\* the redo tool
redo_tool(W) ==
  LET info == getHistoryInfo(W.state)
  IN IF ~info.canRedo
     THEN Ret(W.state, W.heap, ToolOutcome(FALSE, [success |-> FALSE], <<>>))
     ELSE LET U == redo(W)
          IN IF IsThrew(U.ret) THEN U
             ELSE Ret(U.state, U.heap, ToolOutcome(FALSE, [success |-> IsTrue(U.ret)], <<>>))

\* the load_project tool; `path` is the outcome of validatePath, `file` what
\* reading and parsing the file gives: None if that throws, else the value
load_project(W, path, file) ==
  IF ~path.valid THEN Ret(W.state, W.heap, ToolError("outside the allowed project directory"))
  ELSE IF file = None THEN Ret(W.state, W.heap, ToolError("Failed to load"))
  ELSE
    LET data == file[1]
    IN \* SessionDataSchema.parse(data)
       IF ~HasShape(data, {"canvas", "animation"})
            \/ ~SessionDataValid(AsSessionData(data.fields))
       THEN Ret(W.state, W.heap, ToolError("Failed to load"))
       ELSE
         LET L == loadFromSessionData(W, SessionDataParse(AsSessionData(data.fields)),
                                      Some(path.resolved))
         IN IF IsThrew(L.ret) THEN Ret(L.state, L.heap, ToolError("Failed to load"))
            ELSE Ret(L.state, L.heap,
                     ToolSuccess([success |-> TRUE, filePath |-> path.resolved,
                                  frames |-> Len(L.state.frames)]))

\* the loop body of select_by_color that pushes three neighbours: the one
\* above is left out
SelectStep_NoUp(W, targetCell, opts, S) ==
  IF Len(S.queue) = 0 THEN S
  ELSE
    LET p == Head(S.queue)
        key == createCellKey(p.x, p.y)
        rest == Tail(S.queue)
    IN IF key \in S.visited THEN [S EXCEPT !.queue = rest]
       ELSE IF ~isInBounds(p.x, p.y, W.state.width, W.state.height)
         THEN [S EXCEPT !.queue = rest]
       ELSE IF ~matches(getCell(W, p.x, p.y), targetCell, opts)
         THEN [S EXCEPT !.queue = rest, !.visited = @ \cup {key}]
       ELSE [queue |-> rest \o <<[x |-> p.x - 1, y |-> p.y], [x |-> p.x + 1, y |-> p.y],
                                  [x |-> p.x, y |-> p.y + 1]>>,
             visited |-> S.visited \cup {key},
             selectedCells |-> Append(S.selectedCells, key)]

\* one iteration of the `while (queue.length > 0)` loop of select_by_color on
\* S = [queue, visited, selectedCells]
SelectStep(W, targetCell, opts, S) ==
  IF Len(S.queue) = 0 THEN S
  ELSE
    LET p == Head(S.queue)
        key == createCellKey(p.x, p.y)
        rest == Tail(S.queue)
    IN IF key \in S.visited THEN [S EXCEPT !.queue = rest]
       ELSE IF ~isInBounds(p.x, p.y, W.state.width, W.state.height)
         THEN [S EXCEPT !.queue = rest]
       ELSE IF ~matches(getCell(W, p.x, p.y), targetCell, opts)
         THEN [S EXCEPT !.queue = rest, !.visited = @ \cup {key}]
       ELSE [queue |-> rest \o <<[x |-> p.x - 1, y |-> p.y], [x |-> p.x + 1, y |-> p.y],
                                  [x |-> p.x, y |-> p.y - 1], [x |-> p.x, y |-> p.y + 1]>>,
             visited |-> S.visited \cup {key},
             selectedCells |-> Append(S.selectedCells, key)]

RECURSIVE SelectIterate(_, _, _, _, _)
\* n iterations of the loop, stopping early once the queue is empty
SelectIterate(W, targetCell, opts, n, S) ==
  IF n = 0 \/ Len(S.queue) = 0 THEN S
  ELSE SelectIterate(W, targetCell, opts, n - 1, SelectStep(W, targetCell, opts, S))

\* the row-major scan of select_by_color with contiguous = false
SelectScan(W, targetCell, opts) ==
  LET width == W.state.width
      all == [n \in 1..(width * W.state.height) |->
                [x |-> (n - 1) % width, y |-> (n - 1) \div width]]
      hit == SelectSeq(all, LAMBDA c : matches(getCell(W, c.x, c.y), targetCell, opts))
  IN [n \in 1..Len(hit) |-> createCellKey(hit[n].x, hit[n].y)]

\* the select_by_color tool
select_by_color(W, x, y, matchChar, matchColor, matchBgColor, contiguous) ==
  IF ~isInBounds(x, y, W.state.width, W.state.height)
  THEN Ret(W.state, W.heap, ToolError("Starting position out of bounds"))
  ELSE IF ~isLayerMode(W.state) /\ NoCurrentData(W) THEN Ret(W.state, W.heap, Threw)
  ELSE
    LET targetCell == getCell(W, x, y)
        opts == [contiguous |-> contiguous, matchChar |-> matchChar,
                 matchColor |-> matchColor, matchBgColor |-> matchBgColor]
        selectedCells ==
          IF contiguous
          THEN SelectIterate(W, targetCell, opts, FloodFuel(W),
                             [queue |-> <<[x |-> x, y |-> y]>>, visited |-> {},
                              selectedCells |-> <<>>]).selectedCells
          ELSE SelectScan(W, targetCell, opts)
        selection == [type |-> "cells", cells |-> selectedCells]
        S == setSelection(W, selection)
    IN Ret(S.state, S.heap,
           ToolSuccess([success |-> TRUE, targetCell |-> targetCell,
                        cellsSelected |-> Len(selectedCells)]))

----------------------------------------------------------------------------
(* IEEE-754 binary64 arithmetic, as far as interpolatePropertyValue uses    *)
(* it: t = n / d with 0 <= n < d, k * t and k + x for integers k, and       *)
(* Math.round.  Every double that occurs is a multiple of 2^-75 below 2^15  *)
(* in magnitude (for frame distances and values below 2^14), so a double    *)
(* is [neg, mag] with mag its magnitude in units of 2^-75, written as six   *)
(* limbs of 15 bits, least significant first.  Each operation computes the  *)
(* exact result and rounds it to 53 significant bits, to nearest, ties to   *)
(* even.                                                                    *)

Pow2(k) ==
  <<1, 2, 4, 8, 16, 32, 64, 128, 256, 512, 1024, 2048, 4096, 8192, 16384, 32768>>[k + 1]

LimbBits == 15
LimbBase == Pow2(LimbBits)
Limbs == 6
MantissaBits == 53

Abs(n) == IF n < 0 THEN -n ELSE n

FpZeroMag == [i \in 1..Limbs |-> 0]
\* the integer k (0 <= k < 2^15) in units of 2^-75
FpIntMag(k) == [i \in 1..Limbs |-> IF i = Limbs THEN k ELSE 0]

\* bit p (p >= 0, from the least significant) of X
FpBit(X, p) == (X[(p \div LimbBits) + 1] \div Pow2(p % LimbBits)) % 2

\* the number of significant bits of X (0 for zero)
FpBitLen(X) ==
  LET used == {i \in 1..Limbs : X[i] # 0}
  IN IF used = {} THEN 0
     ELSE LET h == CHOOSE i \in used : \A k \in used : k <= i
          IN LimbBits * (h - 1)
               + (CHOOSE b \in 1..LimbBits : Pow2(b - 1) <= X[h] /\ X[h] < Pow2(b))

FpLess(X, Y) ==
  \E i \in 1..Limbs : X[i] < Y[i] /\ \A k \in (i + 1)..Limbs : X[k] = Y[k]

RECURSIVE FpAddFrom(_, _, _, _)
FpAddFrom(X, Y, i, carry) ==
  IF i > Limbs THEN <<>>
  ELSE LET v == X[i] + Y[i] + carry
       IN <<v % LimbBase>> \o FpAddFrom(X, Y, i + 1, v \div LimbBase)

FpAddMag(X, Y) == FpAddFrom(X, Y, 1, 0)

RECURSIVE FpSubFrom(_, _, _, _)
FpSubFrom(X, Y, i, borrow) ==
  IF i > Limbs THEN <<>>
  ELSE LET v == X[i] - Y[i] - borrow
       IN <<IF v < 0 THEN v + LimbBase ELSE v>>
            \o FpSubFrom(X, Y, i + 1, IF v < 0 THEN 1 ELSE 0)

\* X - Y for X >= Y
FpSubMag(X, Y) == FpSubFrom(X, Y, 1, 0)

RECURSIVE FpMulFrom(_, _, _, _)
FpMulFrom(X, k, i, carry) ==
  IF i > Limbs THEN <<>>
  ELSE LET v == X[i] * k + carry
       IN <<v % LimbBase>> \o FpMulFrom(X, k, i + 1, v \div LimbBase)

\* X * k for a natural k < 2^15
FpMulMag(X, k) == FpMulFrom(X, k, 1, 0)

\* the exact magnitude X (plus something below one unit when `sticky`)
\* rounded to 53 significant bits
FpRoundMag(X, sticky) ==
  LET len == FpBitLen(X)
      cut == len - MantissaBits
  IN IF cut <= 0 THEN X
     ELSE LET kept == [i \in 1..Limbs |->
                         IF LimbBits * i <= cut THEN 0
                         ELSE IF LimbBits * (i - 1) >= cut THEN X[i]
                         ELSE (X[i] \div Pow2(cut - LimbBits * (i - 1)))
                                * Pow2(cut - LimbBits * (i - 1))]
              unit == [i \in 1..Limbs |->
                         IF i = (cut \div LimbBits) + 1 THEN Pow2(cut % LimbBits) ELSE 0]
              half == FpBit(X, cut - 1) = 1
              more == sticky \/ \E p \in 0..(cut - 2) : FpBit(X, p) = 1
              odd == FpBit(X, cut) = 1
          IN IF half /\ (more \/ odd) THEN FpAddMag(kept, unit) ELSE kept

RECURSIVE FpDivFrom(_, _, _)
\* the limbs of r/d below the point, the most significant last, then the
\* remainder: long division in base 2^15
FpDivFrom(r, d, i) ==
  IF i = 0 THEN <<r>>
  ELSE FpDivFrom((r * LimbBase) % d, d, i - 1) \o <<(r * LimbBase) \div d>>

\* n / d as a double, for naturals 0 <= n < d < 2^15
FpDiv(n, d) ==
  LET q == FpDivFrom(n, d, Limbs - 1)
      mag == [i \in 1..Limbs |-> IF i = Limbs THEN 0 ELSE q[i + 1]]
  IN [neg |-> FALSE, mag |-> FpRoundMag(mag, q[1] # 0)]

\* k * x as a double, for an integer k, |k| < 2^15
FpMulInt(k, x) ==
  [neg |-> (k < 0) # x.neg, mag |-> FpRoundMag(FpMulMag(x.mag, Abs(k)), FALSE)]

\* k + x as a double, for an integer k, |k| < 2^14
FpAddInt(k, x) ==
  LET a == FpIntMag(Abs(k))
  IN IF (k < 0) = x.neg \/ k = 0 \/ x.mag = FpZeroMag
     THEN [neg |-> IF x.mag = FpZeroMag THEN k < 0 ELSE x.neg,
           mag |-> FpRoundMag(FpAddMag(a, x.mag), FALSE)]
     ELSE IF FpLess(a, x.mag)
       THEN [neg |-> x.neg, mag |-> FpRoundMag(FpSubMag(x.mag, a), FALSE)]
     ELSE [neg |-> k < 0, mag |-> FpRoundMag(FpSubMag(a, x.mag), FALSE)]

\* Math.round(x): the nearest integer, a tie going towards +Infinity
MathRound(x) ==
  LET whole == x.mag[Limbs]
      half == x.mag[Limbs - 1] >= Pow2(LimbBits - 1)
      overHalf == \/ x.mag[Limbs - 1] > Pow2(LimbBits - 1)
                  \/ half /\ \E i \in 1..(Limbs - 2) : x.mag[i] # 0
  IN IF x.neg THEN (IF overHalf THEN -(whole + 1) ELSE -whole)
     ELSE (IF half THEN whole + 1 ELSE whole)

----------------------------------------------------------------------------
(* Keyframe interpolation *)

\* interpolatePropertyValue(track, frame) on kfs = track.keyframes
interpolatePropertyValue(kfs, frame) ==
  IF Len(kfs) = 0 THEN 0
  ELSE IF Len(kfs) = 1 THEN kfs[1].value
  ELSE IF frame <= kfs[1].frame THEN kfs[1].value
  ELSE IF frame >= kfs[Len(kfs)].frame THEN kfs[Len(kfs)].value
  ELSE
    \* the for loop returns at the first i with kfs[i].frame <= frame < kfs[i+1].frame
    LET hits == {i \in 1..(Len(kfs) - 1) : frame >= kfs[i].frame /\ frame < kfs[i + 1].frame}
    IN IF hits = {} THEN kfs[Len(kfs)].value
       ELSE LET i == CHOOSE i \in hits : \A k \in hits : i <= k
                prev == kfs[i]
                next == kfs[i + 1]
            IN IF prev.easing.type = "hold" THEN prev.value
               ELSE LET t == FpDiv(frame - prev.frame, next.frame - prev.frame)
                    IN MathRound(FpAddInt(prev.value,
                                          FpMulInt(next.value - prev.value, t)))

----------------------------------------------------------------------------
(* Effective layer properties *)

ALL_PROPERTIES ==
  <<"transform.position.x", "transform.position.y",
    "transform.scale.x", "transform.scale.y",
    "transform.rotation",
    "transform.anchorPoint.x", "transform.anchorPoint.y">>

DEFAULTS(st) ==
  [prop \in {ALL_PROPERTIES[i] : i \in 1..Len(ALL_PROPERTIES)} |->
     CASE prop \in {"transform.position.x", "transform.position.y"} -> 0
       [] prop \in {"transform.scale.x", "transform.scale.y"} -> 1
       [] prop = "transform.rotation" -> 0
       [] prop = "transform.anchorPoint.x" -> st.width \div 2
       [] prop = "transform.anchorPoint.y" -> st.height \div 2]

\* layer.staticProperties?.[prop]: None when undefined
StaticVal(layer, prop) ==
  IF Len(layer.staticProperties) = 0 THEN None
  ELSE IF prop \in DOMAIN layer.staticProperties[1]
    THEN Some(layer.staticProperties[1][prop])
    ELSE None

getLayerProperties(W, layerId) ==
  LET st == W.state
      li == FindLayer(st, layerId)
  IN IF li = 0 THEN Ret(st, W.heap, [props |-> <<>>])
     ELSE
       LET layer == st.layers[li]
       IN Ret(st, W.heap,
              [props |->
                 [prop \in {ALL_PROPERTIES[i] : i \in 1..Len(ALL_PROPERTIES)} |->
                    LET ti == FindTrackByPath(layer, prop)
                        staticVal == StaticVal(layer, prop)
                    IN IF ti # 0 /\ Len(layer.propertyTracks[ti].keyframes) > 0
                       THEN [value |-> interpolatePropertyValue(
                                         layer.propertyTracks[ti].keyframes,
                                         st.currentFrameIndex),
                             isKeyframed |-> TRUE,
                             keyframeCount |-> Len(layer.propertyTracks[ti].keyframes)]
                       ELSE IF staticVal # None
                       THEN [value |-> staticVal[1], isKeyframed |-> FALSE,
                             keyframeCount |-> 0]
                       ELSE [value |-> DEFAULTS(st)[prop], isKeyframed |-> FALSE,
                             keyframeCount |-> 0]]])

----------------------------------------------------------------------------
(* Garbage collection.  A data object that no frame and no history entry    *)
(* points to can never be read again; it is dropped after each call, and   *)
(* its reference is free for the next allocation.                          *)

EntryDataRefs(e) ==
  CASE e.type = "set_cells_batch" -> {e.cap.previousData, e.cap.newData}
    [] e.type = "clear_canvas" -> {e.cap.previousData}
    [] e.type = "resize_canvas" ->
         {e.cap.previousFrameData[i] : i \in 1..Len(e.cap.previousFrameData)}
    [] e.type = "fill_region" -> {e.cap.dataTarget, e.cap.previousData, e.cap.newData}
    [] OTHER -> {}

LiveData(st, hp) ==
  ({hp.frames[f].data : f \in 1..Len(hp.frames)}
     \cup {hp.cframes[c].data : c \in 1..Len(hp.cframes)}
     \cup UNION {EntryDataRefs(st.historyStack[i]) : i \in 1..Len(st.historyStack)})
  \cap DOMAIN hp.data

Collect(st, hp) == [hp EXCEPT !.data = [r \in LiveData(st, hp) |-> hp.data[r]]]

----------------------------------------------------------------------------
(* The document as a caller sees it, for comparing two moments *)

GridOf(hp, r) == [defined |-> r # Undefined, cells |-> Spread(hp, r)]

\* frame sequence, every frame's grid, canvas dimensions
View(W) ==
  [width |-> W.state.width, height |-> W.state.height,
   frames |-> [i \in 1..Len(W.state.frames) |->
                 [id |-> W.heap.frames[W.state.frames[i]].id,
                  grid |-> GridOf(W.heap, W.heap.frames[W.state.frames[i]].data)]]]

\* every grid the document holds: flat frames and layer content frames
Grids(W) ==
  {GridOf(W.heap, W.heap.frames[W.state.frames[i]].data).cells :
     i \in 1..Len(W.state.frames)}
  \cup UNION {{GridOf(W.heap, W.heap.cframes[W.state.layers[l].contentFrames[c]].data).cells :
                 c \in 1..Len(W.state.layers[l].contentFrames)} :
               l \in 1..Len(W.state.layers)}

cellCount(W) ==
  LET f == getCurrentFrame(W)
  IN IF f = Undefined THEN 0 ELSE Cardinality(DOMAIN Spread(W.heap, W.heap.frames[f].data))

----------------------------------------------------------------------------
(* Inputs the behaviours draw from *)

CellA == [char |-> "A", color |-> "#FFFFFF", bgColor |-> "transparent"]
CellB == [char |-> " ", color |-> "#FF0000", bgColor |-> "transparent"]

\* (0,0) and (1,0) stay in bounds; (InitWidth-1, 1) is clipped by a narrower
\* canvas; (InitWidth+2, InitHeight+2) is out of bounds
EdgeX == InitWidth - 1
OutX == InitWidth + 2
OutY == InitHeight + 2

SetCellInputs ==
  {<<0, 0, CellA>>, <<EdgeX, 1, CellB>>, <<0, 0, EMPTY_CELL>>, <<OutX, OutY, CellA>>}

SetCellsInputs ==
  { <<[x |-> 0, y |-> 0, cell |-> CellB], [x |-> EdgeX, y |-> 1, cell |-> CellA],
      [x |-> OutX, y |-> OutY, cell |-> CellA]>>,
    <<[x |-> 1, y |-> 0, cell |-> EMPTY_CELL], [x |-> OutX, y |-> OutY, cell |-> CellA]>> }

FillOpts(c, mc, mk, mb) ==
  [contiguous |-> c, matchChar |-> mc, matchColor |-> mk, matchBgColor |-> mb]

FillInputs ==
  { [x |-> 0, y |-> 0, cell |-> CellB, opts |-> FillOpts(TRUE, TRUE, FALSE, FALSE)],
    [x |-> 1, y |-> 1, cell |-> EMPTY_CELL, opts |-> FillOpts(FALSE, FALSE, TRUE, FALSE)] }

ResizeInputs == {<<1, 1>>, <<InitWidth + 1, InitHeight>>}

\* a CanvasData argument that names an empty cell explicitly
DataWithEmpty == DataSet(DataSet(EmptyData, createCellKey(0, 0), EMPTY_CELL),
                         createCellKey(1, 1), CellA)

AddFrameInputs ==
  { [atIndex |-> None, canvasData |-> None, duration |-> None],
    [atIndex |-> Some(7), canvasData |-> None, duration |-> None],
    [atIndex |-> Some(-1), canvasData |-> None, duration |-> None],
    [atIndex |-> Some(1), canvasData |-> Some(DataWithEmpty), duration |-> Some(5)] }

FrameIndexInputs == {0, 1, 5}
DurationInputs == {5}
NameInputs == {<<"intro">>}

DocFrame(n, data) ==
  [id |-> <<"doc", n>>, name |-> None, duration |-> None, data |-> data, thumbnail |-> None]

FlatDoc(frames, index) ==
  [version |-> Some("1.0.0"), name |-> Some("demo"), description |-> None,
   canvas |-> [width |-> InitWidth, height |-> InitHeight,
               canvasBackgroundColor |-> "#000000", showGrid |-> None],
   animation |-> [frames |-> frames, currentFrameIndex |-> index,
                  frameRate |-> None, looping |-> None],
   tools |-> None, typography |-> None, ui |-> None]

LoadInputs ==
  { FlatDoc(<<>>, 0),
    FlatDoc(<<DocFrame(1, Some(DataWithEmpty)), DocFrame(2, None)>>, 1),
    [FlatDoc(<<DocFrame(1, None)>>, 0) EXCEPT !.canvas.width = 1] }

----------------------------------------------------------------------------
(* The specification: calls on one ProjectStateManager, one at a time *)

W == [state |-> state, heap |-> heap]

Init ==
  LET c == createDefaultState(EmptyHeap)
      n == newProject(c, Some(InitWidth), Some(InitHeight), None)
  IN /\ state = n.state
     /\ heap = n.heap
     /\ ret = RetVoid
     /\ lastOp = [op |-> "newProject"]
     /\ clock = 0
     /\ shadow = <<>>
     /\ phase = "ops"

\* Date.now() of the call being made
now == clock + 1

\* the call made at time t pushed a history entry (it is the newest entry)
Recorded(st, t) ==
  /\ Len(st.historyStack) > 0
  /\ st.historyStack[Len(st.historyStack)].timestamp = t

\* operations only; then undos only; then, once every entry is undone,
\* redos only.  Selecting a frame between operations keeps the shape.
PhaseAfter(op, r) ==
  CASE op = "undo" /\ "bool" \in DOMAIN r /\ phase \in {"ops", "undos"} -> "undos"
    [] op = "redo" /\ IsTrue(r)
         /\ ((phase = "undos" /\ state.historyIndex = -1) \/ phase = "redos") -> "redos"
    [] op = "goToFrame" /\ phase = "ops" -> "ops"
    [] OTHER -> "mixed"

\* a mutating call: R is what the handler computed from W
Call(R, op) ==
  /\ clock < MaxOps
  /\ Len(R.state.frames) <= MaxFrames
  /\ state' = R.state
  /\ heap' = Collect(R.state, R.heap)
  /\ ret' = R.ret
  /\ lastOp' = op
  /\ clock' = clock + 1
  /\ shadow' = Append(shadow, [pre |-> View(W), post |-> View(R),
                                recorded |-> Recorded(R.state, now)])
  /\ phase' = IF phase = "ops" THEN "ops" ELSE "mixed"

\* a call that is not counted: navigation, undo, redo
Free(R, op) ==
  /\ Len(R.state.frames) <= MaxFrames
  /\ state' = R.state
  /\ heap' = Collect(R.state, R.heap)
  /\ ret' = R.ret
  /\ lastOp' = op
  /\ phase' = PhaseAfter(op.op, R.ret)
  /\ UNCHANGED <<clock, shadow>>

SetCellOf(inputs) ==
  \E a \in inputs :
    Call(setCell(W, a[1], a[2], a[3], TRUE, now), [op |-> "setCell", cell |-> a[3]])

SetCellsOf(inputs) ==
  \E cells \in inputs :
    Call(setCells(W, cells, TRUE, now), [op |-> "setCells"])

FillRegionOf(inputs) ==
  \E a \in inputs :
    Call(fillRegion(W, a.x, a.y, a.cell, a.opts, TRUE, now),
         [op |-> "fillRegion", x |-> a.x, y |-> a.y, cell |-> a.cell, opts |-> a.opts])

ResizeCanvasOf(inputs) ==
  \E a \in inputs :
    Call(resizeCanvas(W, a[1], a[2], TRUE, now), [op |-> "resizeCanvas"])

AddFrameOf(inputs) ==
  \E a \in inputs :
    Call(addFrame(W, a.atIndex, a.canvasData, a.duration, TRUE, now),
         [op |-> "addFrame", atIndex |-> a.atIndex])

GoToFrameOf(inputs) ==
  \E i \in inputs :
    Free(goToFrame(W, i), [op |-> "goToFrame"])

(* Spec: cell edits, fills, resizes and the history engine *)

SetCell == SetCellOf(SetCellInputs)

SetCells == SetCellsOf(SetCellsInputs)

ClearCanvas == Call(clearCanvas(W, TRUE, now), [op |-> "clearCanvas"])

FillRegion == FillRegionOf(FillInputs)

ResizeCanvas == ResizeCanvasOf(ResizeInputs)

AppendFrame == AddFrameOf({[atIndex |-> None, canvasData |-> None, duration |-> None]})

GoToFrame == GoToFrameOf({0, 1})

Undo == Free(undo(W), [op |-> "undo"])

Redo == Free(redo(W), [op |-> "redo"])

Next ==
  \/ SetCell
  \/ SetCells
  \/ ClearCanvas
  \/ FillRegion
  \/ ResizeCanvas
  \/ AppendFrame
  \/ GoToFrame
  \/ Undo
  \/ Redo

Spec == Init /\ [][Next]_vars

(* SpecFrames: the flat frame list, loads, and the history engine *)

AddFrame == AddFrameOf(AddFrameInputs)

DeleteFrame ==
  \E i \in FrameIndexInputs :
    Call(deleteFrame(W, i, TRUE, now), [op |-> "deleteFrame", index |-> i])

DuplicateFrame ==
  \E i \in FrameIndexInputs :
    Call(duplicateFrame(W, i, TRUE, now), [op |-> "duplicateFrame", index |-> i])

SetFrameDuration ==
  \E d \in DurationInputs :
    Call(setFrameDuration(W, 0, d, TRUE, now), [op |-> "setFrameDuration"])

SetFrameName ==
  \E n \in NameInputs :
    Call(setFrameName(W, 0, n, TRUE, now), [op |-> "setFrameName"])

DrawCell == SetCellOf({<<0, 0, CellA>>})

SelectFrame == GoToFrameOf(FrameIndexInputs)

Load ==
  \E d \in LoadInputs :
    Call(loadFromSessionData(W, d, None), [op |-> "load", doc |-> d])

UndoFrames == Free(undo(W), [op |-> "undo"])

RedoFrames == Free(redo(W), [op |-> "redo"])

NextFrames ==
  \/ AddFrame
  \/ DeleteFrame
  \/ DuplicateFrame
  \/ SetFrameDuration
  \/ SetFrameName
  \/ DrawCell
  \/ SelectFrame
  \/ Load
  \/ UndoFrames
  \/ RedoFrames

SpecFrames == Init /\ [][NextFrames]_vars

----------------------------------------------------------------------------
(* SpecFill: one fillRegion on a canvas drawn from a family of grids *)

CellC == [char |-> "A", color |-> "#FF0000", bgColor |-> "#0000FF"]

\* a one-cell-thick wall in column 2, rows 0..(rows - 1)
WallX == 2
WallGrid(rows, cell) ==
  [k \in {createCellKey(WallX, y) : y \in 0..(rows - 1)} |-> cell]

MixedGrid ==
  DataSet(DataSet(DataSet(DataSet(EmptyData,
    createCellKey(0, 0), CellB), createCellKey(1, 0), CellB),
    createCellKey(1, 1), CellC), createCellKey(EdgeX, 1), CellA)

FillGrids ==
  {EmptyData, WallGrid(InitHeight, CellA), WallGrid(InitHeight - 1, CellA),
   WallGrid(InitHeight, CellB), MixedGrid}

FillSeeds == {<<0, 0>>, <<WallX, 1>>, <<EdgeX, InitHeight - 1>>, <<OutX, OutY>>}

AllFillOpts == {FillOpts(c, mc, mk, mb) : c \in BOOLEAN, mc \in BOOLEAN,
                                          mk \in BOOLEAN, mb \in BOOLEAN}

InitFill ==
  \E g \in FillGrids :
    LET c == createDefaultState(EmptyHeap)
        n == newProject(c, Some(InitWidth), Some(InitHeight), None)
        f == n.state.frames[1]
    IN /\ state = n.state
       /\ heap = [n.heap EXCEPT !.data[n.heap.frames[f].data] = g]
       /\ ret = RetVoid
       /\ lastOp = [op |-> "newProject"]
       /\ clock = 0
       /\ shadow = <<>>
       /\ phase = "ops"

FillOnce ==
  /\ clock = 0
  /\ FillRegionOf({[x |-> s[1], y |-> s[2], cell |-> c, opts |-> o] :
                     s \in FillSeeds, c \in {CellC, EMPTY_CELL}, o \in AllFillOpts})

SpecFill == InitFill /\ [][FillOnce]_vars

----------------------------------------------------------------------------
(* SpecInterp: interpolatePropertyValue on sorted keyframe lists *)

MaxKeyframes == 3
KeyframeFrames == {0, 3, 4, 10}
KeyframeValues == {-5, 0, 45, 100}
QueryFrames == -1..11

Keyframe(n, frame, value, easing) ==
  [id |-> <<"kf", n>>, frame |-> frame, value |-> value, easing |-> [type |-> easing]]

\* the frames of n keyframes in the order addKeyframe and updateKeyframe leave
\* them: sorted by frame
SortedFrames(n) ==
  {f \in [1..n -> KeyframeFrames] : \A i \in 1..(n - 1) : f[i] <= f[i + 1]}

InitInterp ==
  \E n \in 1..MaxKeyframes :
    \E fs \in SortedFrames(n), vs \in [1..n -> KeyframeValues],
       es \in [1..n -> {"linear", "hold"}] :
      LET c == createDefaultState(EmptyHeap)
          p == newProject(c, Some(InitWidth), Some(InitHeight), None)
          kfs == [i \in 1..n |-> Keyframe(i, fs[i], vs[i], es[i])]
      IN /\ state = p.state
         /\ heap = p.heap
         /\ ret = RetVoid
         /\ lastOp = [op |-> "track", keyframes |-> kfs, frame |-> 0]
         /\ clock = 0
         /\ shadow = <<>>
         /\ phase = "ops"

Interpolate ==
  /\ lastOp.op = "track"
  /\ \E f \in QueryFrames :
       /\ ret' = RetNum(interpolatePropertyValue(lastOp.keyframes, f))
       /\ lastOp' = [lastOp EXCEPT !.op = "interpolatePropertyValue", !.frame = f]
  /\ UNCHANGED <<state, heap, clock, shadow, phase>>

SpecInterp == InitInterp /\ [][Interpolate]_vars

----------------------------------------------------------------------------
(* SpecRoundTrip: load a flat document, then serialize it *)

UiState == [zoom |-> 2, panOffset |-> [x |-> 0, y |-> 0], theme |-> "light"]

DocFrameLists ==
  { <<>>,
    <<DocFrame(1, None)>>,
    <<[DocFrame(1, Some(EmptyData)) EXCEPT !.thumbnail = Some("png")]>>,
    <<[DocFrame(1, Some(DataSet(EmptyData, createCellKey(1, 1), CellA)))
         EXCEPT !.name = Some(<<"intro">>), !.duration = Some(250)],
      DocFrame(2, Some(EmptyData))>> }

RoundTripDocs ==
  {[FlatDoc(fr, idx) EXCEPT !.description = d, !.ui = u, !.name = nm, !.canvas.width = w] :
     fr \in DocFrameLists, idx \in {0, 1, 3},
     d \in {None, Some("about"), Some("")}, u \in {None, Some(UiState)},
     nm \in {None, Some("demo")}, w \in {1, InitWidth}}

LoadDoc ==
  /\ clock = 0
  /\ \E d \in RoundTripDocs :
       Call(loadFromSessionData(W, d, None), [op |-> "load", doc |-> d])

Serialize ==
  /\ lastOp.op = "load"
  /\ ret = RetVoid
  /\ ret' = [doc |-> toSessionData(W)]
  /\ lastOp' = [lastOp EXCEPT !.op = "toSessionData"]
  /\ UNCHANGED <<state, heap, clock, shadow, phase>>

NextRoundTrip == LoadDoc \/ Serialize

SpecRoundTrip == Init /\ [][NextRoundTrip]_vars

----------------------------------------------------------------------------
(* SpecLayers: layers and the content frames on their timelines *)

MaxLayers == 2
MissingId == <<"layer", 0>>

LayerIds == {state.layers[i].id : i \in 1..Len(state.layers)} \cup {MissingId}
ContentFrameIds ==
  {heap.cframes[r].id : r \in 1..Len(heap.cframes)} \cup {MissingId}

StartInputs == {0, 2}
DurationFrameInputs == {-1, 0, 1, 3}

AddLayer ==
  /\ Len(state.layers) < MaxLayers
  /\ Call(addLayer(W, None), [op |-> "addLayer"])

AddContentFrame ==
  \E l \in LayerIds, s \in StartInputs, d \in DurationFrameInputs :
    Call(addContentFrame(W, l, s, d, None),
         [op |-> "addContentFrame", startFrame |-> s, durationFrames |-> d])

UpdateContentFrameTiming ==
  \E l \in LayerIds, c \in ContentFrameIds, s \in StartInputs, d \in DurationFrameInputs :
    Call(updateContentFrameTiming(W, l, c, s, d),
         [op |-> "updateContentFrameTiming", startFrame |-> s, durationFrames |-> d])

RemoveContentFrame ==
  \E l \in LayerIds, c \in ContentFrameIds :
    Call(removeContentFrame(W, l, c), [op |-> "removeContentFrame"])

NextLayers ==
  \/ AddLayer
  \/ AddContentFrame
  \/ UpdateContentFrameTiming
  \/ RemoveContentFrame

SpecLayers == Init /\ [][NextLayers]_vars

----------------------------------------------------------------------------
(* Properties of the history engine and the flat frame list *)

\* the entries at or below the cursor, and the number of redo-pending ones
KeptEntries(st) == SubSeq(st.historyStack, 1, st.historyIndex + 1)
PendingRedo(st) == Len(st.historyStack) - 1 - st.historyIndex
Newest(st) == st.historyStack[Len(st.historyStack)]

\* this step is a call that pushed a history entry
Pushed == clock' = clock + 1 /\ Recorded(state', clock')

\* every call so far was recorded and every entry is still on the stack
AllRecorded ==
  /\ clock >= 1
  /\ clock <= state.maxHistorySize
  /\ Len(state.historyStack) = clock
  /\ \A i \in 1..clock : shadow[i].recorded

(* C1: N recorded operations on a fresh flat project (N <= maxHistorySize)  *)
(* followed by N undos give back the initial document: the same frame       *)
(* sequence, the same grid in every frame, the same canvas width and        *)
(* height.                                                                  *)
C1_UndoAllRestoresInitial ==
  (phase = "undos" /\ AllRecorded /\ state.historyIndex = -1)
    => View(W) = shadow[1].pre

(* C2: N recorded operations, N undos and then N redos give back the        *)
(* document as it was right after the N operations, also when a fillRegion  *)
(* entry shares a frame with setCells, clearCanvas or resizeCanvas entries. *)
C2_RedoAllRestoresPost ==
  (phase = "redos" /\ AllRecorded /\ state.historyIndex = clock - 1)
    => View(W) = shadow[clock].post

(* C3 as written: a push after M undos discards exactly the M redo-pending  *)
(* entries and nothing else; the stack is then the entries at or below the  *)
(* cursor followed by the new entry, the cursor is on the new entry and     *)
(* canRedo() is false.                                                      *)
C3_PushKeepsAllBelowCursor ==
  [][Pushed =>
       /\ state'.historyStack = Append(KeptEntries(state), Newest(state'))
       /\ state'.historyIndex = Len(state'.historyStack) - 1
       /\ ~canRedo(state')]_vars

(* C3, amended: a push discards the M redo-pending entries; the entries at  *)
(* or below the cursor all stay, in order, unless they already number       *)
(* maxHistorySize (only possible when M = 0), in which case the oldest of   *)
(* them is dropped as well.  In every case the new entry is last, the       *)
(* cursor is on it, and canRedo() is false.                                 *)
C3_PushDiscardsRedoPending ==
  [][Pushed =>
       LET kept == KeptEntries(state)
       IN /\ state'.historyStack =
               IF Len(kept) >= state.maxHistorySize
               THEN Append(Tail(kept), Newest(state'))
               ELSE Append(kept, Newest(state'))
          /\ (Len(kept) >= state.maxHistorySize => PendingRedo(state) = 0)
          /\ state'.historyIndex = Len(state'.historyStack) - 1
          /\ ~canRedo(state')]_vars

\* a recorded call whose entry a later push discarded while an older entry stayed
C3_Witness_RedoPendingDiscarded ==
  /\ ~canRedo(state)
  /\ lastOp.op \notin {"undo", "redo", "goToFrame"}
  /\ Recorded(state, clock)
  /\ \E i \in 1..Len(shadow) :
       /\ shadow[i].recorded
       /\ \A k \in 1..Len(state.historyStack) : state.historyStack[k].timestamp # i
       /\ \E k \in 1..Len(state.historyStack) : state.historyStack[k].timestamp < i

(* C5: no grid stores a cell equal to the empty value, in any reachable     *)
(* state: not after a write, an undo, a redo, or a load.                    *)
C5_NoStoredEmptyCell ==
  \A g \in Grids(W) : \A k \in DOMAIN g : ~isEmpty(g[k])

(* C9: the stack never holds more than maxHistorySize entries; a push onto  *)
(* a full stack drops exactly the oldest entry, keeps the others in order   *)
(* and leaves the cursor on the newest; undo succeeds exactly while the     *)
(* cursor is on an entry and moves it down by one, so after more than       *)
(* maxHistorySize recorded operations exactly maxHistorySize undos in a row *)
(* succeed and the next returns false.                                      *)
C9_HistoryCapacity ==
  [][/\ Len(state.historyStack) <= state.maxHistorySize
     /\ Len(state'.historyStack) <= state'.maxHistorySize
     /\ (Pushed /\ Len(KeptEntries(state)) = state.maxHistorySize =>
           /\ state'.historyStack = Append(Tail(KeptEntries(state)), Newest(state'))
           /\ state'.historyIndex = state'.maxHistorySize - 1)
     /\ (Pushed => state'.historyIndex = Len(state'.historyStack) - 1)
     /\ (lastOp'.op = "undo" =>
           /\ (IsTrue(ret') <=> (state.historyIndex >= 0))
           /\ (IsFalse(ret') <=> (state.historyIndex < 0))
           /\ (IsTrue(ret') => state'.historyIndex = state.historyIndex - 1))]_vars

\* more than maxHistorySize operations, all recorded, then undos only:
\* the undo after the maxHistorySize-th returned false
C9_Witness_UndoExhausted ==
  /\ phase = "undos"
  /\ lastOp.op = "undo" /\ IsFalse(ret)
  /\ clock > state.maxHistorySize
  /\ \A i \in 1..clock : shadow[i].recorded
  /\ Len(state.historyStack) = state.maxHistorySize
  /\ state.historyStack[1].timestamp = clock - state.maxHistorySize + 1

----------------------------------------------------------------------------
(* Properties of content frames, the region fill, interpolation, round trip *)

\* the stored interval of a content frame
IntervalOf(cf) == cf.startFrame..(cf.startFrame + cf.durationFrames - 1)

(* C4: on every layer the stored intervals [startFrame, startFrame +        *)
(* durationFrames) of two content frames never intersect, whatever integer  *)
(* startFrame and durationFrames addContentFrame and                        *)
(* updateContentFrameTiming are given (a durationFrames <= 0 is stored as   *)
(* 1); a refused attempt leaves the layer's content frames as they were.    *)
C4_ContentFramesDisjoint ==
  [][/\ \A l \in 1..Len(state'.layers) :
          \A i, j \in 1..Len(state'.layers[l].contentFrames) :
            i # j =>
              IntervalOf(heap'.cframes[state'.layers[l].contentFrames[i]])
                \cap IntervalOf(heap'.cframes[state'.layers[l].contentFrames[j]]) = {}
     /\ (lastOp'.op \in {"addContentFrame", "updateContentFrameTiming"}
           /\ (IsNull(ret') \/ IsFalse(ret')) =>
           /\ state'.layers = state.layers
           /\ heap'.cframes = heap.cframes)]_vars

\* the reference region of a fill: grid is the current frame's grid before
\* the fill, (x, y) the seed
RefCells(w, h) == (0..(w - 1)) \X (0..(h - 1))

RefCellAt(grid, c) ==
  IF createCellKey(c[1], c[2]) \in DOMAIN grid THEN grid[createCellKey(c[1], c[2])]
  ELSE EMPTY_CELL

RefAdjacent(a, b) ==
  \/ a[1] = b[1] /\ (a[2] = b[2] + 1 \/ b[2] = a[2] + 1)
  \/ a[2] = b[2] /\ (a[1] = b[1] + 1 \/ b[1] = a[1] + 1)

\* the in-bounds cells that agree with the seed cell on every selected field
RefMatching(grid, w, h, seed, opts) ==
  LET target == IF seed \in RefCells(w, h) THEN RefCellAt(grid, seed) ELSE EMPTY_CELL
      fields == (IF opts.matchChar THEN {"char"} ELSE {})
                  \cup (IF opts.matchColor THEN {"color"} ELSE {})
                  \cup (IF opts.matchBgColor THEN {"bgColor"} ELSE {})
  IN {c \in RefCells(w, h) : \A f \in fields : RefCellAt(grid, c)[f] = target[f]}

RECURSIVE RefComponent(_, _)
\* the 4-connected component of S within M: the least set closed under
\* stepping to an adjacent cell of M
RefComponent(S, M) ==
  LET grown == S \cup {c \in M : \E s \in S : RefAdjacent(c, s)}
  IN IF grown = S THEN S ELSE RefComponent(grown, M)

RefRegion(grid, w, h, seed, opts) ==
  LET M == RefMatching(grid, w, h, seed, opts)
  IN IF ~opts.contiguous THEN M
     ELSE IF seed \in RefCells(w, h) THEN RefComponent({seed}, M)
     ELSE {}

\* grid with fillCell written over region (an empty fillCell removes the keys)
RefFilled(grid, region, fillCell) ==
  LET keys == {createCellKey(c[1], c[2]) : c \in region}
  IN IF fillCell = EMPTY_CELL THEN [k \in (DOMAIN grid) \ keys |-> grid[k]]
     ELSE [k \in (DOMAIN grid) \cup keys |-> IF k \in keys THEN fillCell ELSE grid[k]]

\* the grid of the current frame before and after the last mutating call
GridBefore == shadow[clock].pre.frames[state.currentFrameIndex + 1].grid.cells
GridAfter == shadow[clock].post.frames[state.currentFrameIndex + 1].grid.cells

(* C6: the cells fillRegion fills are exactly the reference region: with    *)
(* contiguous = true the 4-connected component of the seed among the        *)
(* in-bounds cells matching the seed cell under the selected predicates,    *)
(* with contiguous = false all in-bounds cells matching the seed cell; the  *)
(* returned count is the size of that region, and no other cell changes.    *)
C6_FillEqualsReference ==
  lastOp.op = "fillRegion" =>
    LET region == RefRegion(GridBefore, shadow[clock].pre.width, shadow[clock].pre.height,
                            <<lastOp.x, lastOp.y>>, lastOp.opts)
    IN /\ ret = RetNum(Cardinality(region))
       /\ GridAfter = RefFilled(GridBefore, region, lastOp.cell)

\* a contiguous fill that a wall kept on the seed's side: it filled several
\* cells, yet fewer than the cells matching the seed cell
C6_Witness_WallStopsFill ==
  /\ lastOp.op = "fillRegion"
  /\ lastOp.opts.contiguous /\ lastOp.opts.matchChar
  /\ ret.num > 1
  /\ ret.num < Cardinality(RefMatching(GridBefore, state.width, state.height,
                                       <<lastOp.x, lastOp.y>>, lastOp.opts))
  /\ \A k \in DOMAIN GridBefore : GridAfter[k] = GridBefore[k]

\* the reference value of a property at frame f
\* num/den rounded to the nearest integer, a tie going up; the value lies in lo..hi
RefRound(num, den, lo, hi) ==
  CHOOSE n \in lo..hi : 2 * n * den <= 2 * num + den /\ 2 * num + den < 2 * (n + 1) * den

RefInterpolate(kfs, f) ==
  LET first == kfs[1]
      last == kfs[Len(kfs)]
  IN IF f <= first.frame THEN first.value
     ELSE IF f >= last.frame THEN last.value
     ELSE LET i == CHOOSE i \in 1..(Len(kfs) - 1) : kfs[i].frame <= f /\ f < kfs[i + 1].frame
              prev == kfs[i]
              next == kfs[i + 1]
          IN IF prev.easing.type = "hold" THEN prev.value
             ELSE RefRound(prev.value * (next.frame - prev.frame)
                             + (next.value - prev.value) * (f - prev.frame),
                           next.frame - prev.frame,
                           Min(prev.value, next.value), Max(prev.value, next.value) + 1)

(* C7: on a sorted keyframe list the interpolated value at frame f is the   *)
(* first keyframe's value for f <= first.frame, the last keyframe's value   *)
(* for f >= last.frame, otherwise for the bracketing pair prev.value under  *)
(* hold easing and else round(prev.value + (next.value - prev.value) *      *)
(* (f - prev.frame) / (next.frame - prev.frame)); it lies between the       *)
(* bracketing values and, at a keyframe's frame, is a keyframe's value.     *)
C7_InterpolationEqualsReference ==
  lastOp.op = "interpolatePropertyValue" =>
    LET kfs == lastOp.keyframes
        f == lastOp.frame
        v == ret.num
    IN /\ v = RefInterpolate(kfs, f)
       /\ \A i \in 1..(Len(kfs) - 1) :
            kfs[1].frame < f /\ f < kfs[Len(kfs)].frame
              /\ kfs[i].frame <= f /\ f < kfs[i + 1].frame =>
              /\ v >= Min(kfs[i].value, kfs[i + 1].value)
              /\ v <= Max(kfs[i].value, kfs[i + 1].value)
       /\ (\E i \in 1..Len(kfs) : kfs[i].frame = f) =>
            \E i \in 1..Len(kfs) : kfs[i].frame = f /\ kfs[i].value = v

\* an optional field of the document that is given is given back unchanged
KeptIfGiven(given, back) == Len(given) = 0 \/ back = given

DocFrameKept(f, g) ==
  /\ g.id = f.id
  /\ KeptIfGiven(f.name, g.name)
  /\ KeptIfGiven(f.duration, g.duration)
  /\ KeptIfGiven(f.data, g.data)
  /\ KeptIfGiven(f.thumbnail, g.thumbnail)

RoundTripEqual(doc, back) ==
  /\ KeptIfGiven(doc.version, back.version)
  /\ KeptIfGiven(doc.name, back.name)
  /\ KeptIfGiven(doc.description, back.description)
  /\ back.canvas.width = doc.canvas.width
  /\ back.canvas.height = doc.canvas.height
  /\ back.canvas.canvasBackgroundColor = doc.canvas.canvasBackgroundColor
  /\ KeptIfGiven(doc.canvas.showGrid, back.canvas.showGrid)
  /\ Len(back.animation.frames) = Len(doc.animation.frames)
  /\ \A i \in 1..Len(doc.animation.frames) :
       i <= Len(back.animation.frames) =>
         DocFrameKept(doc.animation.frames[i], back.animation.frames[i])
  /\ back.animation.currentFrameIndex = doc.animation.currentFrameIndex
  /\ KeptIfGiven(doc.animation.frameRate, back.animation.frameRate)
  /\ KeptIfGiven(doc.animation.looping, back.animation.looping)
  /\ KeptIfGiven(doc.tools, back.tools)
  /\ KeptIfGiven(doc.typography, back.typography)
  /\ KeptIfGiven(doc.ui, back.ui)

(* C8: toSessionData() after loadFromSessionData(doc) gives doc back in     *)
(* every field the flat schema declares, ui, frame thumbnails, description  *)
(* and currentFrameIndex included, for any valid flat document doc.         *)
C8_FlatRoundTrip ==
  lastOp.op = "toSessionData" => RoundTripEqual(lastOp.doc, ret.doc)

----------------------------------------------------------------------------
(* SpecCanvas: canvas dimensions. newProject and resizeCanvas with sizes    *)
(* below, inside and above the allowed range, a cell drawn in the last      *)
(* column of the last row, a layer added, and the history engine.           *)

\* { width, height } options of newProject
NewProjectInputs == {<<0, 0>>, <<-2, 6>>, <<300, 300>>, <<6, 5>>}

\* (width, height) arguments of resizeCanvas
CanvasSizeInputs == {<<0, 0>>, <<-1, 5>>, <<300, 300>>, <<4, 4>>}

NewProject ==
  \E a \in NewProjectInputs :
    Call(newProject(W, Some(a[1]), Some(a[2]), None),
         [op |-> "newProject", width |-> a[1], height |-> a[2]])

ResizeTo ==
  \E a \in CanvasSizeInputs :
    Call(resizeCanvas(W, a[1], a[2], TRUE, now),
         [op |-> "resizeCanvas", width |-> a[1], height |-> a[2]])

DrawCorner == SetCellOf({<<state.width - 1, state.height - 1, CellA>>})

AddLayerCanvas == Call(addLayer(W, None), [op |-> "addLayer"])

UndoCanvas == Free(undo(W), [op |-> "undo"])

RedoCanvas == Free(redo(W), [op |-> "redo"])

NextCanvas ==
  \/ NewProject
  \/ ResizeTo
  \/ DrawCorner
  \/ AddLayerCanvas
  \/ UndoCanvas
  \/ RedoCanvas

SpecCanvas == Init /\ [][NextCanvas]_vars

----------------------------------------------------------------------------
(* Claims, part 3 *)

\* v brought into lo..hi
RefClamp(v, lo, hi) == IF v < lo THEN lo ELSE IF v > hi THEN hi ELSE v

(* C11: resizeCanvas(w, h) and newProject({width: w, height: h}) leave      *)
(* width = clamp(w, 4, 200) and height = clamp(h, 4, 100) for every integer *)
(* w and h, zero and negative ones included, and width stays in 4..200 and  *)
(* height in 4..100 in every state, also after undo and redo of a resize.   *)
C11_DimensionsClamped ==
  /\ state.width \in 4..200
  /\ state.height \in 4..100
  /\ (lastOp.op \in {"resizeCanvas", "newProject"} /\ "width" \in DOMAIN lastOp) =>
       /\ state.width = RefClamp(lastOp.width, 4, 200)
       /\ state.height = RefClamp(lastOp.height, 4, 100)

(* C12: no grid of the document stores a cell at a coordinate with          *)
(* x >= width or y >= height: resizeCanvas clips every flat frame's grid    *)
(* and, in layered mode, every content frame of every layer, so every       *)
(* stored cell key is within the canvas bounds in every state.              *)
C12_NoCellOutOfBounds ==
  \A g \in Grids(W) : \A k \in DOMAIN g :
    parseCellKey(k).x < state.width /\ parseCellKey(k).y < state.height

----------------------------------------------------------------------------
(* SpecKeyframes: one layer, its property tracks and their keyframes *)

MaxKeyframeOps == 4

PropertyPaths == {"transform.position.x", "transform.rotation"}
TrackIds ==
  UNION {{state.layers[l].propertyTracks[t].id :
            t \in 1..Len(state.layers[l].propertyTracks)} : l \in 1..Len(state.layers)}
    \cup {MissingId}
KeyframeIds ==
  UNION {UNION {{state.layers[l].propertyTracks[t].keyframes[k].id :
                   k \in 1..Len(state.layers[l].propertyTracks[t].keyframes)} :
                t \in 1..Len(state.layers[l].propertyTracks)} :
         l \in 1..Len(state.layers)}
    \cup {MissingId}
KeyframeFrameInputs == {0, 3}
KeyframeUpdates ==
  {[frame |-> None, value |-> Some(9), easing |-> None],
   [frame |-> Some(0), value |-> None, easing |-> None],
   [frame |-> Some(5), value |-> None, easing |-> Some([type |-> "hold"])]}

\* a call, counted up to `limit` calls
CallWithin(limit, R, op) ==
  /\ clock < limit
  /\ state' = R.state
  /\ heap' = Collect(R.state, R.heap)
  /\ ret' = R.ret
  /\ lastOp' = op
  /\ clock' = clock + 1
  /\ shadow' = Append(shadow, [pre |-> View(W), post |-> View(R),
                                recorded |-> Recorded(R.state, now)])
  /\ phase' = phase

AddLayerOnce ==
  /\ Len(state.layers) = 0
  /\ CallWithin(MaxKeyframeOps, addLayer(W, None), [op |-> "addLayer"])

AddKeyframe ==
  \E l \in LayerIds, p \in PropertyPaths, f \in KeyframeFrameInputs, v \in {1, 2} :
    CallWithin(MaxKeyframeOps, addKeyframe(W, l, p, f, v, None),
               [op |-> "addKeyframe", layerId |-> l, propertyPath |-> p,
                frame |-> f, value |-> v])

UpdateKeyframe ==
  \E l \in LayerIds, t \in TrackIds, k \in KeyframeIds, u \in KeyframeUpdates :
    CallWithin(MaxKeyframeOps, updateKeyframe(W, l, t, k, u), [op |-> "updateKeyframe"])

RemoveKeyframe ==
  \E l \in LayerIds, t \in TrackIds, k \in KeyframeIds :
    CallWithin(MaxKeyframeOps, removeKeyframe(W, l, t, k), [op |-> "removeKeyframe"])

NextKeyframes ==
  \/ AddLayerOnce
  \/ AddKeyframe
  \/ UpdateKeyframe
  \/ RemoveKeyframe

SpecKeyframes == Init /\ [][NextKeyframes]_vars

\* the keyframes of the track for propertyPath on layer layerId, <<>> if none
KeyframesOf(st, layerId, propertyPath) ==
  LET li == FindLayer(st, layerId)
      ti == IF li = 0 THEN 0 ELSE FindTrackByPath(st.layers[li], propertyPath)
  IN IF ti = 0 THEN <<>> ELSE st.layers[li].propertyTracks[ti].keyframes

(* C13: on every property track the keyframes are sorted by strictly        *)
(* increasing frame (sorted, one keyframe per frame) after any sequence of  *)
(* addKeyframe, updateKeyframe and removeKeyframe; addKeyframe at an        *)
(* occupied frame replaces that keyframe: the track keeps its length and    *)
(* the keyframe at that frame has the new value.                            *)
C13_KeyframesStrictlySorted ==
  [][/\ \A l \in 1..Len(state'.layers) :
          \A t \in 1..Len(state'.layers[l].propertyTracks) :
            LET kfs == state'.layers[l].propertyTracks[t].keyframes
            IN \A i \in 1..(Len(kfs) - 1) : kfs[i].frame < kfs[i + 1].frame
     /\ (lastOp'.op = "addKeyframe" /\ ~IsNull(ret')) =>
          LET before == KeyframesOf(state, lastOp'.layerId, lastOp'.propertyPath)
              after == KeyframesOf(state', lastOp'.layerId, lastOp'.propertyPath)
          IN /\ \E i \in 1..Len(after) :
                  after[i].frame = lastOp'.frame /\ after[i].value = lastOp'.value
             /\ (\E i \in 1..Len(before) : before[i].frame = lastOp'.frame) =>
                  Len(after) = Len(before)]_vars

----------------------------------------------------------------------------
(* SpecProject: a document with history, layers, a group and a selection,   *)
(* replaced by newProject or by a load of a flat or a layered document      *)

MaxProjectOps == 4

DocContentFrame(n, startFrame, durationFrames, data) ==
  [id |-> <<"doc-cf", n>>, name |-> <<"Frame", n>>, startFrame |-> startFrame,
   durationFrames |-> durationFrames, data |-> data, hidden |-> None]

DocTrack(n, keyframes) ==
  [id |-> <<"doc-track", n>>, propertyPath |-> "transform.position.x",
   loopKeyframes |-> None, keyframes |-> keyframes]

DocLayer(n, contentFrames, propertyTracks) ==
  [id |-> <<"doc-layer", n>>, name |-> <<"Layer", n>>, visible |-> None, solo |-> None,
   locked |-> None, opacity |-> None, parentGroupId |-> None,
   contentFrames |-> contentFrames, propertyTracks |-> propertyTracks,
   staticProperties |-> None, syncKeyframesToFrames |-> None]

DocGroup(n, childLayerIds) ==
  [id |-> <<"doc-group", n>>, name |-> <<"Group", n>>, childLayerIds |-> childLayerIds,
   visible |-> None, solo |-> None, locked |-> None, collapsed |-> None]

LayeredDoc(layers, layerGroups) ==
  [version |-> Some("2.0.0"), name |-> Some("demo"), description |-> None,
   metadata |-> None,
   canvas |-> [width |-> InitWidth, height |-> InitHeight,
               canvasBackgroundColor |-> "#000000", showGrid |-> None],
   timeline |-> [frameRate |-> None, durationFrames |-> None, looping |-> None],
   layers |-> layers, layerGroups |-> layerGroups,
   tools |-> None, typography |-> None, ui |-> None]

LoadV2Inputs ==
  { LayeredDoc(<<>>, None),
    LayeredDoc(<<DocLayer(1, <<DocContentFrame(1, 0, 2,
                                  Some(DataSet(EmptyData, createCellKey(1, 1), CellA)))>>,
                          <<DocTrack(1, <<Keyframe(1, 0, 1, "linear")>>)>>)>>,
               Some(<<DocGroup(1, <<<<"doc-layer", 1>>>>)>>)),
    LayeredDoc(<<DocLayer(1, <<DocContentFrame(1, 0, 0, None)>>, <<>>)>>, None) }

\* what the document held when the call was made
Before ==
  [history |-> Len(state.historyStack), index |-> state.historyIndex,
   dirty |-> state.isDirty, layers |-> Len(state.layers),
   groups |-> Len(state.layerGroups), selected |-> state.selection # Undefined]

DrawProject ==
  CallWithin(MaxProjectOps, setCell(W, 0, 0, CellA, TRUE, now), [op |-> "setCell"])

AddLayerProject ==
  /\ Len(state.layers) = 0
  /\ CallWithin(MaxProjectOps, addLayer(W, None), [op |-> "addLayer"])

CreateGroup ==
  /\ Len(state.layerGroups) = 0
  /\ CallWithin(MaxProjectOps,
                createGroup(W, None, Some([i \in 1..Len(state.layers) |-> state.layers[i].id])),
                [op |-> "createGroup"])

SetSelection ==
  /\ state.selection = Undefined
  /\ CallWithin(MaxProjectOps, setSelection(W, 1), [op |-> "setSelection"])

UndoProject == Free(undo(W), [op |-> "undo"])

RedoProject == Free(redo(W), [op |-> "redo"])

NewProjectAgain ==
  CallWithin(MaxProjectOps, newProject(W, None, None, Some("next")),
             [op |-> "newProject", before |-> Before])

LoadFlat ==
  \E d \in LoadInputs :
    CallWithin(MaxProjectOps, loadFromSessionData(W, d, None),
               [op |-> "loadFromSessionData", doc |-> d, before |-> Before])

LoadV2 ==
  \E d \in LoadV2Inputs :
    CallWithin(MaxProjectOps, loadFromSessionDataV2(W, d, None),
               [op |-> "loadFromSessionDataV2", doc |-> d, before |-> Before])

NextProject ==
  \/ DrawProject
  \/ AddLayerProject
  \/ CreateGroup
  \/ SetSelection
  \/ UndoProject
  \/ RedoProject
  \/ NewProjectAgain
  \/ LoadFlat
  \/ LoadV2

SpecProject == Init /\ [][NextProject]_vars

\* the references a sequence holds
RefsOf(refs) == {refs[i] : i \in 1..Len(refs)}

\* the content frames (references) of every layer
ContentFrameRefs(st) ==
  UNION {RefsOf(st.layers[l].contentFrames) : l \in 1..Len(st.layers)}

\* the identifiers of a sequence of records
IdsOf(records) == [i \in 1..Len(records) |-> records[i].id]

(* C14: when newProject, loadFromSessionData or loadFromSessionDataV2       *)
(* completes, the history stack is empty, the cursor is -1 (canUndo and     *)
(* canRedo are false) and the dirty flag is false, whatever they were       *)
(* before, and nothing of the previous document is left: every frame and    *)
(* content frame is a new object, the selection is cleared, and the layers  *)
(* and groups are those of the loaded document (none after newProject and   *)
(* after a flat load).                                                      *)
C14_ReplaceClearsHistory ==
  [][(lastOp'.op \in {"newProject", "loadFromSessionData", "loadFromSessionDataV2"}
        /\ ret' = RetVoid) =>
       /\ state'.historyStack = <<>>
       /\ state'.historyIndex = -1
       /\ ~canUndo(state') /\ ~canRedo(state')
       /\ ~state'.isDirty
       /\ RefsOf(state'.frames) \cap RefsOf(state.frames) = {}
       /\ ContentFrameRefs(state') \cap ContentFrameRefs(state) = {}
       /\ state'.selection = Undefined
       /\ IdsOf(state'.layers) =
            (IF lastOp'.op = "loadFromSessionDataV2" THEN IdsOf(lastOp'.doc.layers) ELSE <<>>)
       /\ IdsOf(state'.layerGroups) =
            (IF lastOp'.op = "loadFromSessionDataV2"
             THEN IdsOf(OrElse(lastOp'.doc.layerGroups, <<>>)) ELSE <<>>)]_vars

\* a layered document loaded over a dirty document that had a layer, a
\* group and an entry to redo
C14_Witness_LoadedOverHistory ==
  /\ lastOp.op = "loadFromSessionDataV2"
  /\ ret = RetVoid
  /\ Len(state.layers) > 0
  /\ lastOp.before.dirty
  /\ lastOp.before.history > 0
  /\ lastOp.before.index < lastOp.before.history - 1
  /\ lastOp.before.layers > 0

----------------------------------------------------------------------------
(* SpecFailures: every operation called with arguments it accepts and with  *)
(* arguments it rejects, on flat and on layered documents                   *)

MaxFailureOps == 3

GroupIds == {state.layerGroups[i].id : i \in 1..Len(state.layerGroups)} \cup {MissingId}
LayerIndexInputs == {-1, 0, 1, 2}
CellXInputs == {-1, 0, InitWidth}
GoToInputs == {-1, 0, 1, DEFAULT_TIMELINE_DURATION}
FrameRateInputs == {0, 24, 500}
TimelineDurationInputs == {0, 6}

FSetCell ==
  \E x \in CellXInputs :
    CallWithin(MaxFailureOps, setCell(W, x, 0, CellA, TRUE, now),
               [op |-> "setCell", x |-> x])

FAddFrame ==
  CallWithin(MaxFailureOps, addFrame(W, None, None, None, TRUE, now), [op |-> "addFrame"])

FDeleteFrame ==
  \E i \in FrameIndexInputs \cup {-1} :
    CallWithin(MaxFailureOps, deleteFrame(W, i, TRUE, now), [op |-> "deleteFrame"])

FDuplicateFrame ==
  \E i \in FrameIndexInputs \cup {-1} :
    CallWithin(MaxFailureOps, duplicateFrame(W, i, TRUE, now), [op |-> "duplicateFrame"])

FGoToFrame ==
  \E i \in GoToInputs :
    CallWithin(MaxFailureOps, goToFrame(W, i), [op |-> "goToFrame"])

FSetFrameDuration ==
  \E i \in FrameIndexInputs \cup {-1}, d \in DurationInputs :
    CallWithin(MaxFailureOps, setFrameDuration(W, i, d, TRUE, now),
               [op |-> "setFrameDuration"])

FSetFrameName ==
  \E i \in FrameIndexInputs \cup {-1}, n \in NameInputs :
    CallWithin(MaxFailureOps, setFrameName(W, i, n, TRUE, now), [op |-> "setFrameName"])

FAddLayer ==
  /\ Len(state.layers) < MaxLayers
  /\ CallWithin(MaxFailureOps, addLayer(W, None), [op |-> "addLayer"])

FRemoveLayer ==
  \E l \in LayerIds :
    CallWithin(MaxFailureOps, removeLayer(W, l),
               [op |-> "removeLayer", layers |-> Len(state.layers),
                known |-> FindLayer(state, l) # 0])

FDuplicateLayer ==
  \E l \in LayerIds :
    /\ Len(state.layers) < MaxLayers \/ l = MissingId
    /\ CallWithin(MaxFailureOps, duplicateLayer(W, l), [op |-> "duplicateLayer"])

FSetActiveLayer ==
  \E l \in LayerIds :
    CallWithin(MaxFailureOps, setActiveLayer(W, l), [op |-> "setActiveLayer"])

FReorderLayers ==
  \E from \in LayerIndexInputs, to \in LayerIndexInputs :
    CallWithin(MaxFailureOps, reorderLayers(W, from, to), [op |-> "reorderLayers"])

FSetLayerLocked ==
  \E l \in LayerIds :
    CallWithin(MaxFailureOps, setLayerLocked(W, l, TRUE), [op |-> "setLayerLocked"])

FAddContentFrame ==
  \E l \in LayerIds, s \in StartInputs :
    CallWithin(MaxFailureOps, addContentFrame(W, l, s, 1, None),
               [op |-> "addContentFrame"])

FUpdateContentFrameTiming ==
  \E l \in LayerIds, c \in ContentFrameIds, s \in StartInputs :
    CallWithin(MaxFailureOps, updateContentFrameTiming(W, l, c, s, 1),
               [op |-> "updateContentFrameTiming",
                known |-> FindLayer(state, l) # 0
                          /\ FindContentFrame(heap, state.layers[FindLayer(state, l)], c) # 0])

FRemoveContentFrame ==
  \E l \in LayerIds, c \in ContentFrameIds :
    CallWithin(MaxFailureOps, removeContentFrame(W, l, c), [op |-> "removeContentFrame"])

FAddPropertyTrack ==
  \E l \in LayerIds, p \in PropertyPaths :
    CallWithin(MaxFailureOps, addPropertyTrack(W, l, p), [op |-> "addPropertyTrack"])

FAddKeyframe ==
  \E l \in LayerIds, p \in PropertyPaths :
    CallWithin(MaxFailureOps, addKeyframe(W, l, p, 0, 1, None), [op |-> "addKeyframe"])

FUpdateKeyframe ==
  \E l \in LayerIds, t \in TrackIds, k \in KeyframeIds, u \in KeyframeUpdates :
    CallWithin(MaxFailureOps, updateKeyframe(W, l, t, k, u), [op |-> "updateKeyframe"])

FRemoveKeyframe ==
  \E l \in LayerIds, t \in TrackIds, k \in KeyframeIds :
    CallWithin(MaxFailureOps, removeKeyframe(W, l, t, k), [op |-> "removeKeyframe"])

FCreateGroup ==
  /\ Len(state.layerGroups) = 0
  /\ CallWithin(MaxFailureOps,
                createGroup(W, None, Some([i \in 1..Len(state.layers) |-> state.layers[i].id])),
                [op |-> "createGroup"])

FUngroupLayers ==
  \E g \in GroupIds :
    CallWithin(MaxFailureOps, ungroupLayers(W, g), [op |-> "ungroupLayers"])

FSetFrameRate ==
  \E fps \in FrameRateInputs :
    CallWithin(MaxFailureOps, setFrameRate(W, fps), [op |-> "setFrameRate"])

FSetTimelineDuration ==
  \E n \in TimelineDurationInputs :
    CallWithin(MaxFailureOps, setTimelineDuration(W, n), [op |-> "setTimelineDuration"])

FUndo == CallWithin(MaxFailureOps, undo(W), [op |-> "undo"])

FRedo == CallWithin(MaxFailureOps, redo(W), [op |-> "redo"])

NextFailures ==
  \/ FSetCell
  \/ FAddFrame
  \/ FDeleteFrame
  \/ FDuplicateFrame
  \/ FGoToFrame
  \/ FSetFrameDuration
  \/ FSetFrameName
  \/ FAddLayer
  \/ FRemoveLayer
  \/ FDuplicateLayer
  \/ FSetActiveLayer
  \/ FReorderLayers
  \/ FSetLayerLocked
  \/ FAddContentFrame
  \/ FUpdateContentFrameTiming
  \/ FRemoveContentFrame
  \/ FAddPropertyTrack
  \/ FAddKeyframe
  \/ FUpdateKeyframe
  \/ FRemoveKeyframe
  \/ FCreateGroup
  \/ FUngroupLayers
  \/ FSetFrameRate
  \/ FSetTimelineDuration
  \/ FUndo
  \/ FRedo

SpecFailures == Init /\ [][NextFailures]_vars

\* the call returned false or null
ReportsFailure(r) ==
  IsFalse(r) \/ IsNull(r) \/ ("ref" \in DOMAIN r /\ r.ref = Undefined)

(* C15: an operation that reports failure (returns false or null) leaves    *)
(* the whole state as it was: every frame, layer, content frame, track and  *)
(* group and their cells, the current frame index, the history stack, its   *)
(* cursor and the dirty flag.                                               *)
C15_FailureLeavesState ==
  [][ReportsFailure(ret') => (state' = state /\ heap' = heap)]_vars

\* a retiming that would overlap another content frame was refused on a
\* document that was already modified
C15_Witness_OverlapRefused ==
  /\ lastOp.op = "updateContentFrameTiming"
  /\ lastOp.known
  /\ IsFalse(ret)
  /\ state.isDirty
  /\ \E l \in 1..Len(state.layers) : Len(state.layers[l].contentFrames) > 1

\* the operations that change the document when they succeed
MutatingOps ==
  {"setCell", "addFrame", "deleteFrame", "duplicateFrame", "setFrameDuration",
   "setFrameName", "addLayer", "removeLayer", "duplicateLayer", "reorderLayers",
   "setLayerLocked", "addContentFrame", "removeContentFrame",
   "updateContentFrameTiming", "addPropertyTrack", "addKeyframe", "updateKeyframe",
   "removeKeyframe", "createGroup", "ungroupLayers", "setFrameRate",
   "setTimelineDuration"}

\* this step is a successful call of a mutating operation
Succeeded ==
  /\ clock' = clock + 1
  /\ lastOp'.op \in MutatingOps
  /\ ~ReportsFailure(ret')
  /\ ~IsThrew(ret')

(* C16: every successful document-mutating operation called with history    *)
(* recording enabled pushes exactly one history entry: afterwards the       *)
(* newest entry is the one of this call, the cursor is on it and canUndo()  *)
(* is true.  The layered operations (addLayer, removeLayer, duplicateLayer, *)
(* reorderLayers, addContentFrame, removeContentFrame,                      *)
(* updateContentFrameTiming, addKeyframe, removeKeyframe, createGroup,      *)
(* ungroupLayers, setFrameRate, setTimelineDuration) are included.          *)
C16_MutationPushesOneEntry ==
  [][Succeeded =>
       /\ canUndo(state')
       /\ Recorded(state', clock')
       /\ state'.historyIndex = Len(state'.historyStack) - 1
       /\ Cardinality({i \in 1..Len(state'.historyStack) :
                         state'.historyStack[i].timestamp = clock'}) = 1]_vars

----------------------------------------------------------------------------
(* SpecComposite: copy_frame_and_modify among recorded edits of a flat      *)
(* document                                                                 *)

MaxCompositeOps == 3

Modification(x, y, char, clear) ==
  [x |-> x, y |-> y, char |-> char, color |-> None, bgColor |-> None, clear |-> clear]

ModificationInputs ==
  { <<>>,
    <<Modification(1, 1, Some("B"), None)>>,
    <<Modification(0, 0, None, Some(TRUE)), Modification(2, 1, Some("C"), None),
      Modification(InitWidth, 0, Some("C"), None)>> }

CopyOptionInputs ==
  { [name |-> None, duration |-> None],
    [name |-> Some(CHOOSE n \in NameInputs : TRUE), duration |-> Some(50)] }

DrawComposite ==
  CallWithin(MaxCompositeOps, setCell(W, 0, 0, CellA, TRUE, now), [op |-> "setCell"])

AddFrameComposite ==
  /\ Len(state.frames) < MaxFrames
  /\ CallWithin(MaxCompositeOps, addFrame(W, None, None, None, TRUE, now),
                [op |-> "addFrame"])

CopyFrameAndModify ==
  \E i \in FrameIndexInputs, mods \in ModificationInputs, o \in CopyOptionInputs :
    /\ Len(state.frames) < MaxFrames \/ i >= Len(state.frames)
    /\ CallWithin(MaxCompositeOps,
                  copy_frame_and_modify(W, i, mods, o.name, o.duration, now),
                  [op |-> "copy_frame_and_modify", modifications |-> Len(mods)])

UndoComposite == Free(undo(W), [op |-> "undo"])

RedoComposite == Free(redo(W), [op |-> "redo"])

NextComposite ==
  \/ DrawComposite
  \/ AddFrameComposite
  \/ CopyFrameAndModify
  \/ UndoComposite
  \/ RedoComposite

SpecComposite == Init /\ [][NextComposite]_vars

(* C17: copy_frame_and_modify records history once.  When the tool succeeds *)
(* the history stack holds exactly one entry of this call, it is the newest *)
(* entry with the cursor on it, and a single undo() then removes the new    *)
(* frame: the frame list is again the one before the call.                  *)
C17_CompositeRecordsOnce ==
  [][(lastOp'.op = "copy_frame_and_modify" /\ clock' = clock + 1 /\ IsToolSuccess(ret')) =>
       /\ Recorded(state', clock')
       /\ state'.historyIndex = Len(state'.historyStack) - 1
       /\ Cardinality({i \in 1..Len(state'.historyStack) :
                         state'.historyStack[i].timestamp = clock'}) = 1
       /\ LET u == undo([state |-> state', heap |-> heap'])
          IN IsTrue(u.ret) /\ u.state.frames = state.frames]_vars

----------------------------------------------------------------------------
(* SpecAuto: documents of every shape given to loadSessionAuto over a live  *)
(* document                                                                 *)

RawObject(fields) == [kind |-> "object", fields |-> fields]

RawCanvas ==
  [width |-> InitWidth, height |-> InitHeight, canvasBackgroundColor |-> "#000000",
   showGrid |-> None]
RawAnimation ==
  [frames |-> <<DocFrame(1, Some(DataSet(EmptyData, createCellKey(2, 2), CellB)))>>,
   currentFrameIndex |-> 0, frameRate |-> None, looping |-> None]
RawTimeline == [frameRate |-> None, durationFrames |-> None, looping |-> None]
RawLayers == <<DocLayer(1, <<DocContentFrame(1, 0, 2, None)>>, <<>>)>>

RawDocs ==
  { [kind |-> "null"], [kind |-> "string"], [kind |-> "number"],
    RawObject([name |-> "empty"]),
    RawObject([version |-> "2.0.0", canvas |-> RawCanvas, timeline |-> RawTimeline]),
    RawObject([version |-> "1.0.0", canvas |-> RawCanvas, timeline |-> RawTimeline,
               layers |-> RawLayers]),
    RawObject([canvas |-> RawCanvas, layers |-> RawLayers]),
    RawObject([canvas |-> RawCanvas, animation |-> RawAnimation]),
    RawObject([version |-> "1.0.0", animation |-> RawAnimation]),
    RawObject([version |-> "2.0.0", canvas |-> RawCanvas, animation |-> RawAnimation]),
    RawObject([version |-> "2.0.0", canvas |-> RawCanvas, animation |-> RawAnimation,
               timeline |-> RawTimeline, layers |-> RawLayers]),
    RawObject([version |-> "2.0.0", canvas |-> RawCanvas, timeline |-> RawTimeline,
               layers |-> RawLayers]),
    RawObject([version |-> "2.0.0", layers |-> RawLayers]) }

LoadAuto ==
  \E raw \in RawDocs :
    CallWithin(MaxProjectOps, loadSessionAuto(W, raw, None),
               [op |-> "loadSessionAuto", raw |-> raw, before |-> Before])

NextAuto ==
  \/ DrawProject
  \/ AddLayerProject
  \/ UndoProject
  \/ LoadAuto

SpecAuto == Init /\ [][NextAuto]_vars

\* the format of a raw value as the documentation words it
RefVersion(raw) ==
  LET object == raw.kind = "object"
  IN IF object /\ "version" \in DOMAIN raw.fields /\ raw.fields.version = "2.0.0"
          /\ "layers" \in DOMAIN raw.fields THEN "2.0.0"
     ELSE IF object /\ "animation" \in DOMAIN raw.fields THEN "1.0.0"
     ELSE "unknown"

\* the step's outcome is the outcome R of a direct call
SameOutcome(R) ==
  /\ state' = R.state
  /\ heap' = Collect(R.state, R.heap)
  /\ ret' = R.ret

(* C18: detectSessionVersion(raw) is '2.0.0' iff raw is an object with      *)
(* version '2.0.0' and a layers field, otherwise '1.0.0' iff raw is an      *)
(* object with an animation field, otherwise 'unknown' (null and            *)
(* non-objects included).  loadSessionAuto gives a layered document to the  *)
(* layered loader and a flat one to the flat loader (a loaded layered       *)
(* document has the document's layers, a loaded flat one has none and the   *)
(* document's frames), and for an unknown document it reports failure and   *)
(* the live document stays as it was.                                       *)
C18_AutoLoadDispatch ==
  [][lastOp'.op = "loadSessionAuto" =>
       LET raw == lastOp'.raw
           version == detectSessionVersion(raw)
       IN /\ version = RefVersion(raw)
          /\ (version = "2.0.0" /\ HasShape(raw, {"canvas", "timeline"})) =>
               /\ SameOutcome(loadFromSessionDataV2(W, AsSessionDataV2(raw.fields), None))
               /\ ret' = RetVoid => IdsOf(state'.layers) = IdsOf(raw.fields.layers)
          /\ (version = "1.0.0" /\ HasShape(raw, {"canvas"})) =>
               /\ SameOutcome(loadFromSessionData(W, AsSessionData(raw.fields), None))
               /\ ret' = RetVoid =>
                    /\ state'.layers = <<>>
                    /\ [i \in 1..Len(state'.frames) |-> heap'.frames[state'.frames[i]].id]
                         = IdsOf(raw.fields.animation.frames)
          /\ version = "unknown" =>
               /\ IsThrew(ret')
               /\ state' = state
               /\ heap' = heap]_vars

\* an object that is neither layered nor flat was refused while the live
\* document had a layer, recorded edits and unsaved changes
C18_Witness_UnknownRefused ==
  /\ lastOp.op = "loadSessionAuto"
  /\ lastOp.raw.kind = "object"
  /\ "layers" \in DOMAIN lastOp.raw.fields
  /\ detectSessionVersion(lastOp.raw) = "unknown"
  /\ IsThrew(ret)
  /\ state.isDirty
  /\ Len(state.layers) > 0
  /\ Len(state.historyStack) > 0

----------------------------------------------------------------------------
(* SpecDirty: edits, undo and redo, rejected calls, queries, dispatch-layer *)
(* tools, and the calls that clear the dirty flag                           *)

MaxDirtyOps == 3

ShiftInputs ==
  { [dx |-> 1, dy |-> 0, wrap |-> FALSE, frameIndex |-> None],
    [dx |-> -1, dy |-> 1, wrap |-> TRUE, frameIndex |-> Some(0)],
    [dx |-> InitWidth, dy |-> 0, wrap |-> FALSE, frameIndex |-> None],
    [dx |-> 0, dy |-> 0, wrap |-> FALSE, frameIndex |-> Some(5)] }

DrawDirty ==
  \E x \in CellXInputs :
    CallWithin(MaxDirtyOps, setCell(W, x, 0, CellA, TRUE, now), [op |-> "setCell"])

AddLayerDirty ==
  /\ Len(state.layers) = 0
  /\ CallWithin(MaxDirtyOps, addLayer(W, None), [op |-> "addLayer"])

SetFrameRateDirty ==
  CallWithin(MaxDirtyOps, setFrameRate(W, 24), [op |-> "setFrameRate"])

ShiftFrameContent ==
  \E a \in ShiftInputs :
    CallWithin(MaxDirtyOps, shift_frame_content(W, a.dx, a.dy, a.wrap, a.frameIndex),
               [op |-> "shift_frame_content"])

MarkClean == CallWithin(MaxDirtyOps, markClean(W), [op |-> "markClean"])

NewProjectDirty ==
  CallWithin(MaxDirtyOps, newProject(W, Some(InitWidth), Some(InitHeight), None),
             [op |-> "newProject"])

LoadDirty ==
  \E d \in LoadInputs :
    CallWithin(MaxDirtyOps, loadFromSessionData(W, d, None), [op |-> "loadFromSessionData"])

GetCellDirty ==
  /\ clock < MaxDirtyOps
  /\ ret' = [cell |-> getCell(W, 0, 0)]
  /\ lastOp' = [op |-> "getCell"]
  /\ UNCHANGED <<state, heap, clock, shadow, phase>>

UndoDirty == Free(undo(W), [op |-> "undo"])

RedoDirty == Free(redo(W), [op |-> "redo"])

NextDirty ==
  \/ DrawDirty
  \/ AddLayerDirty
  \/ SetFrameRateDirty
  \/ ShiftFrameContent
  \/ MarkClean
  \/ NewProjectDirty
  \/ LoadDirty
  \/ GetCellDirty
  \/ UndoDirty
  \/ RedoDirty

SpecDirty == Init /\ [][NextDirty]_vars

\* the document content: canvas size, frames and their cells, layers with
\* their content frames, tracks and cells, groups, timeline configuration
Content(st, hp) ==
  [view |-> View([state |-> st, heap |-> hp]),
   layers |-> [l \in 1..Len(st.layers) |->
                 [layer |-> [st.layers[l] EXCEPT !.contentFrames = <<>>],
                  contentFrames |-> [c \in 1..Len(st.layers[l].contentFrames) |->
                     LET cf == hp.cframes[st.layers[l].contentFrames[c]]
                     IN [cf EXCEPT !.data = GridOf(hp, cf.data)]]]],
   groups |-> st.layerGroups,
   timelineConfig |-> st.timelineConfig,
   frameRate |-> st.frameRate]

ClearingOps == {"markClean", "newProject", "loadFromSessionData", "loadFromSessionDataV2"}

(* C19: a successful call that changes the document content (cells, frames, *)
(* layers, groups, timeline configuration, canvas size), a successful       *)
(* undo() or redo() and a content-changing dispatch-layer tool such as      *)
(* shift_frame_content included, leaves isDirty true; isDirty goes from     *)
(* true to false only in markClean, newProject or a load; a query or a      *)
(* rejected operation leaves it as it was.                                  *)
C19_DirtyFlag ==
  [][/\ (Content(state', heap') # Content(state, heap) /\ lastOp'.op \notin ClearingOps)
          => state'.isDirty
     /\ (lastOp'.op \in {"undo", "redo"} /\ IsTrue(ret')) => state'.isDirty
     /\ (state.isDirty /\ ~state'.isDirty) => lastOp'.op \in ClearingOps
     /\ (ReportsFailure(ret') \/ lastOp'.op = "getCell" \/ IsThrew(ret')
           \/ ("isError" \in DOMAIN ret' /\ ret'.isError))
          => state'.isDirty = state.isDirty]_vars

----------------------------------------------------------------------------
(* SpecLayerList: the layer list under addLayer, the remove_layer tool,     *)
(* duplicateLayer, reorderLayers, undo, newProject and a load               *)

MaxLayerListOps == 4

AddLayerList ==
  /\ Len(state.layers) < MaxLayers
  /\ CallWithin(MaxLayerListOps, addLayer(W, None), [op |-> "addLayer"])

RemoveLayerList ==
  \E l \in LayerIds :
    CallWithin(MaxLayerListOps, remove_layer(W, l),
               [op |-> "remove_layer", layers |-> Len(state.layers),
                known |-> FindLayer(state, l) # 0])

DuplicateLayerList ==
  \E l \in LayerIds :
    /\ Len(state.layers) < MaxLayers \/ l = MissingId
    /\ CallWithin(MaxLayerListOps, duplicateLayer(W, l), [op |-> "duplicateLayer"])

ReorderLayersList ==
  \E from \in LayerIndexInputs, to \in LayerIndexInputs :
    CallWithin(MaxLayerListOps, reorderLayers(W, from, to), [op |-> "reorderLayers"])

DrawLayerList ==
  CallWithin(MaxLayerListOps, setCell(W, 0, 0, CellA, TRUE, now), [op |-> "setCell"])

UndoLayerList == Free(undo(W), [op |-> "undo"])

NewProjectLayerList ==
  CallWithin(MaxLayerListOps, newProject(W, Some(InitWidth), Some(InitHeight), None),
             [op |-> "newProject"])

LoadLayerList ==
  \E d \in LoadV2Inputs :
    CallWithin(MaxLayerListOps, loadFromSessionDataV2(W, d, None),
               [op |-> "loadFromSessionDataV2"])

NextLayerList ==
  \/ AddLayerList
  \/ RemoveLayerList
  \/ DuplicateLayerList
  \/ ReorderLayersList
  \/ DrawLayerList
  \/ UndoLayerList
  \/ NewProjectLayerList
  \/ LoadLayerList

SpecLayerList == Init /\ [][NextLayerList]_vars

(* C20: once the document has a layer, the layer list stays non-empty under *)
(* addLayer, removeLayer, duplicateLayer and reorderLayers (and under edits *)
(* and undo); removing the only layer or an unknown layer reports failure   *)
(* and changes nothing; only newProject or a load brings the document back  *)
(* to zero layers.                                                          *)
C20_LayerListStaysNonEmpty ==
  [][/\ (Len(state.layers) > 0 /\ Len(state'.layers) = 0)
          => lastOp'.op \in {"newProject", "loadFromSessionDataV2"}
     /\ (lastOp'.op = "remove_layer" /\ (lastOp'.layers <= 1 \/ ~lastOp'.known))
          => /\ "isError" \in DOMAIN ret' /\ ret'.isError
             /\ state' = state
             /\ heap' = heap]_vars

\* the only layer of a layered document has just been refused removal
C20_Witness_LastLayerKept ==
  /\ lastOp.op = "remove_layer"
  /\ lastOp.known
  /\ lastOp.layers = 1
  /\ "isError" \in DOMAIN ret /\ ret.isError
  /\ Len(state.layers) = 1
  /\ isLayerMode(state)
  /\ state.isDirty

----------------------------------------------------------------------------
(* SpecDuplicate: a layer with cells, a keyframe and retimed content frames *)
(* is duplicated, then the copy and the source are edited                   *)

MaxDuplicateOps == 5

RealLayerIds == {state.layers[i].id : i \in 1..Len(state.layers)}

DupAddLayer ==
  /\ Len(state.layers) = 0
  /\ CallWithin(MaxDuplicateOps, addLayer(W, None), [op |-> "addLayer"])

DupSetCell ==
  /\ isLayerMode(state)
  /\ \E x \in {0, 1} :
       CallWithin(MaxDuplicateOps, setCell(W, x, 0, CellA, TRUE, now),
                  [op |-> "setCell", target |-> state.activeLayerId[1]])

DupAddKeyframe ==
  \E l \in RealLayerIds, f \in KeyframeFrameInputs :
    CallWithin(MaxDuplicateOps, addKeyframe(W, l, "transform.position.x", f, 1, None),
               [op |-> "addKeyframe", target |-> l])

DupUpdateTiming ==
  \E l \in RealLayerIds, c \in ContentFrameIds, s \in StartInputs :
    CallWithin(MaxDuplicateOps, updateContentFrameTiming(W, l, c, s, 1),
               [op |-> "updateContentFrameTiming", target |-> l])

DupDuplicateLayer ==
  \E l \in LayerIds :
    /\ Len(state.layers) < MaxLayers \/ l = MissingId
    /\ CallWithin(MaxDuplicateOps, duplicateLayer(W, l),
                  [op |-> "duplicateLayer", source |-> l])

DupSetActiveLayer ==
  \E l \in RealLayerIds :
    Free(setActiveLayer(W, l), [op |-> "setActiveLayer"])

NextDuplicate ==
  \/ DupAddLayer
  \/ DupSetCell
  \/ DupAddKeyframe
  \/ DupUpdateTiming
  \/ DupDuplicateLayer
  \/ DupSetActiveLayer

SpecDuplicate == Init /\ [][NextDuplicate]_vars

\* what layer number i holds, identifiers and name aside
LayerContent(st, hp, i) ==
  LET layer == st.layers[i]
  IN [flags |-> [visible |-> layer.visible, solo |-> layer.solo,
                 locked |-> layer.locked, opacity |-> layer.opacity],
      contentFrames |-> [c \in 1..Len(layer.contentFrames) |->
         LET cf == hp.cframes[layer.contentFrames[c]]
         IN [name |-> cf.name, startFrame |-> cf.startFrame,
             durationFrames |-> cf.durationFrames, hidden |-> cf.hidden,
             grid |-> GridOf(hp, cf.data)]],
      tracks |-> [t \in 1..Len(layer.propertyTracks) |->
         LET pt == layer.propertyTracks[t]
         IN [propertyPath |-> pt.propertyPath, loopKeyframes |-> pt.loopKeyframes,
             keyframes |-> [k \in 1..Len(pt.keyframes) |->
                [frame |-> pt.keyframes[k].frame, value |-> pt.keyframes[k].value,
                 easing |-> pt.keyframes[k].easing]]]]]

\* the identifiers of layer number i: its own, its content frames', its
\* tracks' and its keyframes'
LayerIdSet(st, hp, i) ==
  LET layer == st.layers[i]
  IN {layer.id}
     \cup {hp.cframes[layer.contentFrames[c]].id : c \in 1..Len(layer.contentFrames)}
     \cup {layer.propertyTracks[t].id : t \in 1..Len(layer.propertyTracks)}
     \cup UNION {{layer.propertyTracks[t].keyframes[k].id :
                    k \in 1..Len(layer.propertyTracks[t].keyframes)} :
                 t \in 1..Len(layer.propertyTracks)}

\* how many identifiers layer number i needs
LayerIdCount(st, i) ==
  LET layer == st.layers[i]
      kfs == [t \in 1..Len(layer.propertyTracks) |-> Len(layer.propertyTracks[t].keyframes)]
      Sum[t \in 0..Len(kfs)] == IF t = 0 THEN 0 ELSE Sum[t - 1] + kfs[t]
  IN 1 + Len(layer.contentFrames) + Len(layer.propertyTracks) + Sum[Len(kfs)]

\* every identifier in the document
AllIds(st, hp) ==
  UNION {LayerIdSet(st, hp, i) : i \in 1..Len(st.layers)}
    \cup {st.layerGroups[g].id : g \in 1..Len(st.layerGroups)}
    \cup {hp.frames[st.frames[f]].id : f \in 1..Len(st.frames)}

\* the data objects of the content frames of layer number i
LayerDataRefs(st, hp, i) ==
  {hp.cframes[st.layers[i].contentFrames[c]].data :
     c \in 1..Len(st.layers[i].contentFrames)}

(* C21: duplicateLayer(id) inserts right after the source a layer whose     *)
(* content (content-frame timings and grids, property paths, keyframe       *)
(* frames, values and easings, flags) equals the source's; the layer, every *)
(* content frame, every track and every keyframe of the copy has an id that *)
(* no object of the document had; the copy shares no content frame and no   *)
(* grid with any layer, and a later setCell, addKeyframe or                 *)
(* updateContentFrameTiming on one layer leaves every other layer as it     *)
(* was.                                                                     *)
C21_DuplicateIsIndependentCopy ==
  [][/\ (lastOp'.op = "duplicateLayer" /\ ~IsNull(ret')) =>
          LET si == FindLayer(state, lastOp'.source)
          IN /\ Len(state'.layers) = Len(state.layers) + 1
             /\ Splice(state'.layers, si, 1, <<>>) = state.layers
             /\ state'.layers[si + 1].id = ret'.obj
             /\ LayerContent(state', heap', si + 1) = LayerContent(state, heap, si)
             /\ LayerIdSet(state', heap', si + 1) \cap AllIds(state, heap) = {}
             /\ Cardinality(LayerIdSet(state', heap', si + 1)) = LayerIdCount(state', si + 1)
             /\ \A i \in 1..Len(state.layers) :
                  /\ LayerDataRefs(state', heap', si + 1) \cap LayerDataRefs(state, heap, i) = {}
                  /\ RefsOf(state'.layers[si + 1].contentFrames)
                       \cap RefsOf(state.layers[i].contentFrames) = {}
     /\ (lastOp'.op \in {"setCell", "addKeyframe", "updateContentFrameTiming"}) =>
          /\ IdsOf(state'.layers) = IdsOf(state.layers)
          /\ \A i \in 1..Len(state.layers) :
               state.layers[i].id # lastOp'.target =>
                 LayerContent(state', heap', i) = LayerContent(state, heap, i)]_vars

\* a cell was just written on the copy of a layer that holds a cell and a
\* keyframe; the copy and its source now differ
C21_Witness_CopyEdited ==
  /\ lastOp.op = "setCell"
  /\ IsTrue(ret)
  /\ \E i \in 1..(Len(state.layers) - 1) :
       /\ state.layers[i + 1].name = <<state.layers[i].name, "(copy)">>
       /\ state.layers[i + 1].id = lastOp.target
       /\ Len(state.layers[i].propertyTracks) > 0
       /\ \E r \in LayerDataRefs(state, heap, i) : DOMAIN heap.data[r] # {}
       /\ LayerContent(state, heap, i + 1) # LayerContent(state, heap, i)

----------------------------------------------------------------------------
(* SpecTimeline: content frames and keyframes placed inside and beyond the  *)
(* end of the timeline                                                      *)

MaxTimelineOps == 3

TimelineStartInputs == {1, DEFAULT_TIMELINE_DURATION, DEFAULT_TIMELINE_DURATION + 2}
TimelineDurationFrameInputs == {0, 1, 3}
TimelineKeyframeInputs == {0, DEFAULT_TIMELINE_DURATION, DEFAULT_TIMELINE_DURATION + 3}

TimelineAddLayer ==
  /\ Len(state.layers) = 0
  /\ CallWithin(MaxTimelineOps, addLayer(W, None), [op |-> "addLayer"])

TimelineAddContentFrame ==
  \E l \in RealLayerIds, s \in TimelineStartInputs, d \in TimelineDurationFrameInputs :
    CallWithin(MaxTimelineOps, addContentFrame(W, l, s, d, None),
               [op |-> "addContentFrame"])

TimelineUpdateTiming ==
  \E l \in RealLayerIds, c \in ContentFrameIds \ {MissingId},
     s \in TimelineStartInputs, d \in TimelineDurationFrameInputs :
    CallWithin(MaxTimelineOps, updateContentFrameTiming(W, l, c, s, d),
               [op |-> "updateContentFrameTiming", contentFrameId |-> c])

TimelineAddKeyframe ==
  \E l \in RealLayerIds, f \in TimelineKeyframeInputs :
    CallWithin(MaxTimelineOps, addKeyframe(W, l, "transform.position.x", f, 1, None),
               [op |-> "addKeyframe", frame |-> f])

TimelineUpdateKeyframe ==
  \E l \in RealLayerIds, t \in TrackIds \ {MissingId}, k \in KeyframeIds \ {MissingId},
     f \in TimelineKeyframeInputs :
    CallWithin(MaxTimelineOps,
               updateKeyframe(W, l, t, k, [frame |-> Some(f), value |-> None, easing |-> None]),
               [op |-> "updateKeyframe", frame |-> f])

NextTimeline ==
  \/ TimelineAddLayer
  \/ TimelineAddContentFrame
  \/ TimelineUpdateTiming
  \/ TimelineAddKeyframe
  \/ TimelineUpdateKeyframe

SpecTimeline == Init /\ [][NextTimeline]_vars

\* the stored end of the content frame with identifier id
StoredEnd(hp, id) ==
  LET r == CHOOSE r \in 1..Len(hp.cframes) : hp.cframes[r].id = id
  IN hp.cframes[r].startFrame + hp.cframes[r].durationFrames

(* C22: when addContentFrame, updateContentFrameTiming, addKeyframe or      *)
(* updateKeyframe succeeds in placing a content frame or a keyframe beyond  *)
(* the current end of the timeline, timelineConfig.durationFrames is        *)
(* afterwards at least the content frame's stored end (startFrame +         *)
(* durationFrames) and greater than the keyframe's frame; none of the four  *)
(* ever decreases the timeline duration.                                    *)
C22_TimelineCoversPlacement ==
  [][LET before == state.timelineConfig.durationFrames
         after == state'.timelineConfig.durationFrames
     IN /\ (lastOp'.op = "addContentFrame" /\ ~IsNull(ret')
              /\ StoredEnd(heap', ret'.obj) > before)
             => after >= StoredEnd(heap', ret'.obj)
        /\ (lastOp'.op = "updateContentFrameTiming" /\ IsTrue(ret')
              /\ StoredEnd(heap', lastOp'.contentFrameId) > before)
             => after >= StoredEnd(heap', lastOp'.contentFrameId)
        /\ (lastOp'.op \in {"addKeyframe", "updateKeyframe"}
              /\ ~IsNull(ret') /\ ~IsFalse(ret') /\ lastOp'.frame >= before)
             => after > lastOp'.frame
        /\ lastOp'.op \in {"addContentFrame", "updateContentFrameTiming",
                           "addKeyframe", "updateKeyframe"}
             => after >= before]_vars

----------------------------------------------------------------------------
(* Claims about frame durations, checked under SpecFrames *)

(* C23: in every reachable state the duration of every flat frame is within *)
(* [10, 60000] ms: setFrameDuration clamps its argument, addFrame with an   *)
(* explicit duration stores a value in that range for every integer, and a  *)
(* frame created without a duration gets 100 ms.                            *)
C23_FrameDurationsInRange ==
  \A i \in 1..Len(state.frames) :
    LET duration == heap.frames[state.frames[i]].duration
    IN /\ duration >= MIN_DURATION
       /\ duration <= MAX_DURATION

----------------------------------------------------------------------------
(* SpecNotify: cell edits, batches, undo and redo made through the tools,   *)
(* with the change notifications each handler sends                         *)

MaxNotifyOps == 4

BatchCell(x, y, char) == [x |-> x, y |-> y, char |-> char, color |-> None, bgColor |-> None]

BatchInputs ==
  { <<BatchCell(0, 0, Some("B")), BatchCell(1, 0, Some("C")), BatchCell(2, 1, None)>>,
    <<BatchCell(1, 1, Some("A")), BatchCell(InitWidth, 0, Some("A"))>>,
    <<BatchCell(-1, 0, Some("A"))>> }

SetCellTool ==
  \E x \in CellXInputs, c \in {"A", "B"} :
    CallWithin(MaxNotifyOps, set_cell(W, x, 0, Some(c), None, None, now),
               [op |-> "set_cell"])

SetCellsBatchTool ==
  \E cells \in BatchInputs :
    CallWithin(MaxNotifyOps, set_cells_batch(W, cells, now),
               [op |-> "set_cells_batch", cells |-> Len(cells)])

UndoTool == CallWithin(MaxNotifyOps, undo_tool(W), [op |-> "undo"])

RedoTool == CallWithin(MaxNotifyOps, redo_tool(W), [op |-> "redo"])

NextNotify ==
  \/ SetCellTool
  \/ SetCellsBatchTool
  \/ UndoTool
  \/ RedoTool

SpecNotify == Init /\ [][NextNotify]_vars

\* the tool call of this step committed a change / was turned down
Committed(r) == "broadcasts" \in DOMAIN r /\ ~r.isError /\ r.result.success
Rejected(r) == "broadcasts" \in DOMAIN r /\ (r.isError \/ ~r.result.success)

(* C24: every mutation committed through a tool (a cell edit, a batch, an   *)
(* undo, a redo) calls broadcastStateChange exactly once, not once per cell *)
(* of a batch; a rejected call does not call it.                            *)
C24_OneNotificationPerMutation ==
  [][/\ Committed(ret') => Len(ret'.broadcasts) = 1
     /\ Rejected(ret') => Len(ret'.broadcasts) = 0]_vars

----------------------------------------------------------------------------
(* undo() and redo() against canUndo() and canRedo() *)

(* C25: undo() returns true exactly when canUndo() held just before, and    *)
(* redo() returns true exactly when canRedo() held; a call that returns     *)
(* false changes nothing (document, stack, cursor, dirty flag); a           *)
(* successful undo moves the cursor down by one, a successful redo up by    *)
(* one, and neither changes the entries on the stack.                       *)
C25_UndoRedoFollowCursor ==
  [][/\ lastOp'.op = "undo" =>
          /\ ret' = RetBool(canUndo(state))
          /\ ~canUndo(state) => (state' = state /\ heap' = heap)
          /\ canUndo(state) =>
               /\ state'.historyIndex = state.historyIndex - 1
               /\ state'.historyStack = state.historyStack
     /\ lastOp'.op = "redo" =>
          /\ ret' = RetBool(canRedo(state))
          /\ ~canRedo(state) => (state' = state /\ heap' = heap)
          /\ canRedo(state) =>
               /\ state'.historyIndex = state.historyIndex + 1
               /\ state'.historyStack = state.historyStack]_vars

\* redo() has just been turned down with the cursor on the newest of at
\* least two entries
C25_Witness_RedoRefusedAtTop ==
  /\ lastOp.op = "redo"
  /\ ret = RetBool(FALSE)
  /\ Len(state.historyStack) >= 2
  /\ state.historyIndex = Len(state.historyStack) - 1

----------------------------------------------------------------------------
(* SpecFillScope: fills on documents with several frames, several layers,   *)
(* a selection and a history                                                *)

MaxFillScopeOps == 5

ScopeSetCell ==
  CallWithin(MaxFillScopeOps, setCell(W, 1, 0, CellA, TRUE, now), [op |-> "setCell"])

ScopeSetCells ==
  CallWithin(MaxFillScopeOps,
             setCells(W, <<[x |-> 0, y |-> 0, cell |-> CellB],
                           [x |-> OutX, y |-> OutY, cell |-> CellA]>>, TRUE, now),
             [op |-> "setCells"])

ScopeDuplicateFrame ==
  /\ Len(state.frames) < MaxFrames
  /\ CallWithin(MaxFillScopeOps, duplicateFrame(W, 0, TRUE, now), [op |-> "duplicateFrame"])

ScopeGoToFrame ==
  \E i \in {0, 1} :
    CallWithin(MaxFillScopeOps, goToFrame(W, i), [op |-> "goToFrame"])

ScopeAddLayer ==
  /\ Len(state.layers) = 0
  /\ CallWithin(MaxFillScopeOps, addLayer(W, None), [op |-> "addLayer"])

ScopeDuplicateLayer ==
  /\ Len(state.layers) < MaxLayers
  /\ \E l \in RealLayerIds :
       CallWithin(MaxFillScopeOps, duplicateLayer(W, l), [op |-> "duplicateLayer"])

ScopeSetActiveLayer ==
  \E l \in RealLayerIds :
    CallWithin(MaxFillScopeOps, setActiveLayer(W, l), [op |-> "setActiveLayer"])

ScopeSetSelection ==
  /\ state.selection = Undefined
  /\ CallWithin(MaxFillScopeOps, setSelection(W, 1), [op |-> "setSelection"])

ScopeFillRegion ==
  \E a \in FillInputs :
    CallWithin(MaxFillScopeOps, fillRegion(W, a.x, a.y, a.cell, a.opts, TRUE, now),
               [op |-> "fillRegion", x |-> a.x, y |-> a.y, cell |-> a.cell,
                opts |-> a.opts])

ScopeUndo == CallWithin(MaxFillScopeOps, undo(W), [op |-> "undo"])

ScopeRedo == CallWithin(MaxFillScopeOps, redo(W), [op |-> "redo"])

NextFillScope ==
  \/ ScopeSetCell
  \/ ScopeSetCells
  \/ ScopeDuplicateFrame
  \/ ScopeGoToFrame
  \/ ScopeAddLayer
  \/ ScopeDuplicateLayer
  \/ ScopeSetActiveLayer
  \/ ScopeSetSelection
  \/ ScopeFillRegion
  \/ ScopeUndo
  \/ ScopeRedo

SpecFillScope == Init /\ [][NextFillScope]_vars

\* the grid a fill writes into: the data of the active content frame of a
\* layered document, of the current frame of a flat one; Undefined if none
FillTarget(w) ==
  IF isLayerMode(w.state)
  THEN IF getActiveContentFrame(w) = Undefined THEN Undefined
       ELSE w.heap.cframes[getActiveContentFrame(w)].data
  ELSE w.heap.frames[getCurrentFrame(w)].data

\* the grids of the frames and content frames a fill does not target, by
\* their place in the document
OtherGrids(st, hp, w) ==
  [frames |-> [i \in 1..Len(st.frames) |->
                 IF ~isLayerMode(w.state) /\ i = w.state.currentFrameIndex + 1
                 THEN <<>> ELSE <<GridOf(hp, hp.frames[st.frames[i]].data)>>],
   layers |-> [l \in 1..Len(st.layers) |->
                 [c \in 1..Len(st.layers[l].contentFrames) |->
                    IF st.layers[l].contentFrames[c] = getActiveContentFrame(w)
                    THEN <<>>
                    ELSE <<GridOf(hp, hp.cframes[st.layers[l].contentFrames[c]].data)>>]]]

(* C26: one fillRegion call changes only cells of the grid it targets (the  *)
(* current frame, or the active content frame) that are in the matched set  *)
(* it computed: the other frames and content frames, the dimensions, the    *)
(* selection and the current frame index stay as they were, and afterwards  *)
(* every matched coordinate holds the fill cell, or is absent if the fill   *)
(* cell is the empty cell.                                                  *)
C26_FillTouchesOnlyMatched ==
  [][(lastOp'.op = "fillRegion" /\ "num" \in DOMAIN ret') =>
       LET a == lastOp'
           target == FillTarget(W)
           keys == IF target = Undefined THEN {}
                   ELSE cellsToFill(W, a.x, a.y, a.opts)
       IN /\ ret'.num = Cardinality(keys)
          /\ [state' EXCEPT !.historyStack = state.historyStack,
                            !.historyIndex = state.historyIndex,
                            !.isDirty = state.isDirty] = state
          /\ heap'.frames = heap.frames
          /\ heap'.cframes = heap.cframes
          /\ OtherGrids(state', heap', W) = OtherGrids(state, heap, W)
          /\ target # Undefined =>
               LET old == heap.data[target]
                   new == heap'.data[target]
               IN /\ \A k \in keys :
                       IF isEmpty(a.cell) THEN k \notin DOMAIN new
                       ELSE k \in DOMAIN new /\ new[k] = a.cell
                  /\ \A k \in (DOMAIN old \cup DOMAIN new) \ keys :
                       k \in DOMAIN old /\ k \in DOMAIN new /\ new[k] = old[k]]_vars

\* a fill has just changed cells of a document that holds a second frame, a
\* selection and a cell outside the matched set
C26_Witness_FillBesideOthers ==
  /\ lastOp.op = "fillRegion"
  /\ "num" \in DOMAIN ret
  /\ ret.num > 0
  /\ ret.num < state.width * state.height
  /\ Len(state.frames) >= 2
  /\ state.selection # Undefined

----------------------------------------------------------------------------
(* SpecLoadFail: loads of documents the schemas accept and of documents     *)
(* they refuse, over a document with edits, a history and a file path       *)

MaxLoadOps == 3

PathInputs == {None, Some("b.asciimtn")}

FlatLoadInputs ==
  { FlatDoc(<<DocFrame(1, Some(DataWithEmpty))>>, 0),
    [FlatDoc(<<DocFrame(1, None)>>, 0) EXCEPT !.canvas.width = MIN_WIDTH - 1],
    FlatDoc(<<DocFrame(1, None)>>, -1),
    FlatDoc(<<DocFrame(1, Some(DataSet(EmptyData, createCellKey(0, 0),
                                       [CellA EXCEPT !.char = ""])))>>, 0) }

LayeredLoadInputs ==
  { LayeredDoc(<<DocLayer(1, <<DocContentFrame(1, 0, 2, None)>>, <<>>)>>, None),
    LayeredDoc(<<DocLayer(1, <<DocContentFrame(1, 0, 0, None)>>, <<>>)>>, None),
    [LayeredDoc(<<>>, None) EXCEPT !.version = Some("1.0.0")],
    [LayeredDoc(<<>>, None) EXCEPT !.canvas.height = MAX_HEIGHT + 1] }

FileInputs ==
  { None,
    Some([kind |-> "string"]),
    Some(RawObject([canvas |-> RawCanvas, animation |-> RawAnimation])),
    Some(RawObject([canvas |-> [RawCanvas EXCEPT !.width = MAX_WIDTH + 1],
                    animation |-> RawAnimation])),
    Some(RawObject([version |-> "2.0.0", canvas |-> RawCanvas, timeline |-> RawTimeline,
                    layers |-> RawLayers])) }

ProjectPaths ==
  { [valid |-> TRUE, resolved |-> "a.asciimtn"], [valid |-> FALSE, resolved |-> "/etc/x"] }

LoadFailDraw ==
  CallWithin(MaxLoadOps, setCell(W, 0, 0, CellA, TRUE, now), [op |-> "setCell"])

LoadFailAddLayer ==
  /\ Len(state.layers) = 0
  /\ CallWithin(MaxLoadOps, addLayer(W, None), [op |-> "addLayer"])

LoadFailUndo == CallWithin(MaxLoadOps, undo(W), [op |-> "undo"])

LoadFailFlat ==
  \E d \in FlatLoadInputs, f \in PathInputs :
    CallWithin(MaxLoadOps, loadFromSessionData(W, d, f),
               [op |-> "loadFromSessionData", valid |-> SessionDataValid(d)])

LoadFailV2 ==
  \E d \in LayeredLoadInputs, f \in PathInputs :
    CallWithin(MaxLoadOps, loadFromSessionDataV2(W, d, f),
               [op |-> "loadFromSessionDataV2", valid |-> SessionDataV2Valid(d)])

LoadFailAuto ==
  \E raw \in RawDocs, f \in PathInputs :
    CallWithin(MaxLoadOps, loadSessionAuto(W, raw, f),
               [op |-> "loadSessionAuto",
                valid |-> detectSessionVersion(raw) # "unknown"])

LoadFailProject ==
  \E path \in ProjectPaths, file \in FileInputs :
    CallWithin(MaxLoadOps, load_project(W, path, file),
               [op |-> "load_project",
                valid |-> /\ path.valid
                          /\ file # None
                          /\ HasShape(file[1], {"canvas", "animation"})
                          /\ SessionDataValid(AsSessionData(file[1].fields))])

NextLoadFail ==
  \/ LoadFailDraw
  \/ LoadFailAddLayer
  \/ LoadFailUndo
  \/ LoadFailFlat
  \/ LoadFailV2
  \/ LoadFailAuto
  \/ LoadFailProject

SpecLoadFail == Init /\ [][NextLoadFail]_vars

LoadOps == {"loadFromSessionData", "loadFromSessionDataV2", "loadSessionAuto", "load_project"}

\* a load that threw, or a tool result flagged as an error
LoadFailed(r) == IsThrew(r) \/ ("isError" \in DOMAIN r /\ r.isError)

(* C27: a load of a document that fails schema validation, through the flat *)
(* loader, the layered loader, the load_project tool, or the automatic      *)
(* loader given a value of no recognised format, is reported as a failure,  *)
(* and a load reported as a failure leaves the live document, the history   *)
(* stack, its cursor, the file path and the dirty flag as they were.        *)
C27_FailedLoadLeavesState ==
  [][lastOp'.op \in LoadOps =>
       /\ ~lastOp'.valid => LoadFailed(ret')
       /\ LoadFailed(ret') => (state' = state /\ heap' = heap)]_vars

\* the layered loader has just refused a document while the live document
\* had a file path, unsaved edits and a history
C27_Witness_RefusedOverEdits ==
  /\ lastOp.op = "loadFromSessionDataV2"
  /\ ~lastOp.valid
  /\ IsThrew(ret)
  /\ state.filePath # None
  /\ state.isDirty
  /\ Len(state.historyStack) > 0

----------------------------------------------------------------------------
(* SpecProperties: keyframes added and removed, the playhead moved, layered *)
(* documents loaded, and the effective properties of a layer read           *)

MaxPropertyOps == 4

PropertyInputs == {"transform.position.x", "transform.scale.x"}

DocTrackOn(n, propertyPath, keyframes) ==
  [DocTrack(n, keyframes) EXCEPT !.propertyPath = propertyPath]

PropertyDocs ==
  { \* static values, one of them under a track with a keyframe
    LayeredDoc(<<[DocLayer(1, <<DocContentFrame(1, 0, 2, None)>>,
                           <<DocTrackOn(1, "transform.scale.x",
                                        <<Keyframe(1, 0, 2, "linear"),
                                          Keyframe(2, 10, 47, "linear")>>)>>)
                    EXCEPT !.staticProperties =
                             Some(("transform.position.x" :> 3)
                                    @@ ("transform.scale.x" :> 5))]>>, None),
    \* two tracks for one property: the first without keyframes
    LayeredDoc(<<DocLayer(1, <<DocContentFrame(1, 0, 2, None)>>,
                          <<DocTrackOn(1, "transform.rotation", <<>>),
                            DocTrackOn(2, "transform.rotation",
                                       <<Keyframe(1, 0, 90, "hold")>>)>>)>>, None) }

PropAddLayer ==
  /\ Len(state.layers) = 0
  /\ CallWithin(MaxPropertyOps, addLayer(W, None), [op |-> "addLayer"])

PropLoad ==
  \E d \in PropertyDocs :
    CallWithin(MaxPropertyOps, loadFromSessionDataV2(W, d, None),
               [op |-> "loadFromSessionDataV2"])

PropAddKeyframe ==
  \E l \in RealLayerIds, p \in PropertyInputs, f \in {0, 10}, v \in {0, 45} :
    CallWithin(MaxPropertyOps, addKeyframe(W, l, p, f, v, None), [op |-> "addKeyframe"])

PropRemoveKeyframe ==
  \E l \in RealLayerIds, t \in TrackIds \ {MissingId}, k \in KeyframeIds \ {MissingId} :
    CallWithin(MaxPropertyOps, removeKeyframe(W, l, t, k),
               [op |-> "removeKeyframe", trackId |-> t])

PropGoToFrame ==
  \E i \in {0, 7} : Free(goToFrame(W, i), [op |-> "goToFrame"])

PropGetLayerProperties ==
  \E l \in LayerIds :
    Free(getLayerProperties(W, l), [op |-> "getLayerProperties", layerId |-> l])

NextProperties ==
  \/ PropAddLayer
  \/ PropLoad
  \/ PropAddKeyframe
  \/ PropRemoveKeyframe
  \/ PropGoToFrame
  \/ PropGetLayerProperties

SpecProperties == Init /\ [][NextProperties]_vars

PropertySet == {ALL_PROPERTIES[i] : i \in 1..Len(ALL_PROPERTIES)}

\* the layer that was asked about
AskedLayer == state.layers[FindLayer(state, lastOp.layerId)]

\* the tracks of `layer` for `prop` that hold at least one keyframe
KeyedTracks(layer, prop) ==
  {t \in 1..Len(layer.propertyTracks) :
     /\ layer.propertyTracks[t].propertyPath = prop
     /\ Len(layer.propertyTracks[t].keyframes) > 0}

\* the static value if defined, otherwise the default
Fallback(layer, prop) ==
  IF StaticVal(layer, prop) # None THEN StaticVal(layer, prop)[1]
  ELSE IF prop \in {"transform.scale.x", "transform.scale.y"} THEN 1
  ELSE IF prop = "transform.anchorPoint.x" THEN state.width \div 2
  ELSE IF prop = "transform.anchorPoint.y" THEN state.height \div 2
  ELSE 0

Answered ==
  /\ lastOp.op = "getLayerProperties"
  /\ FindLayer(state, lastOp.layerId) # 0

(* C28: getLayerProperties(layerId) gives, for each of the seven property   *)
(* paths, the value interpolated at the current timeline position with      *)
(* isKeyframed true when the layer has a track for the path with at least   *)
(* one keyframe, otherwise the static value if defined, otherwise the       *)
(* default (0 for position and rotation, 1 for scale, floor(width/2) and    *)
(* floor(height/2) for the anchor point).                                   *)
C28_EffectiveProperties ==
  Answered =>
    \A prop \in PropertySet :
      LET keyed == KeyedTracks(AskedLayer, prop)
          got == ret.props[prop]
      IN IF keyed # {}
         THEN /\ got.isKeyframed
              /\ \E t \in keyed :
                   got.value = interpolatePropertyValue(
                                 AskedLayer.propertyTracks[t].keyframes,
                                 state.currentFrameIndex)
         ELSE ~got.isKeyframed /\ got.value = Fallback(AskedLayer, prop)

(* What does hold: the answer for a path is decided by the first track of   *)
(* the layer with that path alone: if it holds at least one keyframe, the   *)
(* value interpolated at the current timeline position with isKeyframed     *)
(* true; otherwise (no such track, or no keyframe left on it) the static    *)
(* value if defined, otherwise the default.                                 *)
FirstTrackDecides ==
  Answered =>
    /\ DOMAIN ret.props = PropertySet
    /\ \A prop \in PropertySet :
         LET first == {t \in 1..Len(AskedLayer.propertyTracks) :
                         /\ AskedLayer.propertyTracks[t].propertyPath = prop
                         /\ \A u \in 1..(t - 1) :
                              AskedLayer.propertyTracks[u].propertyPath # prop}
             got == ret.props[prop]
         IN IF first # {} /\ first \subseteq KeyedTracks(AskedLayer, prop)
            THEN /\ got.isKeyframed
                 /\ \A t \in first :
                      /\ got.keyframeCount = Len(AskedLayer.propertyTracks[t].keyframes)
                      /\ got.value = interpolatePropertyValue(
                                       AskedLayer.propertyTracks[t].keyframes,
                                       state.currentFrameIndex)
            ELSE /\ ~got.isKeyframed
                 /\ got.keyframeCount = 0
                 /\ got.value = Fallback(AskedLayer, prop)

----------------------------------------------------------------------------
(* SpecGroups: layers added, drawn on and removed, groups made and          *)
(* dissolved                                                                *)

MaxGroupOps == 6
GroupLayerLimit == 3

\* the child lists createGroup is given: none, one layer, all layers, an
\* id no layer has
ChildListInputs ==
  {None, Some(<<MissingId>>), Some([i \in 1..Len(state.layers) |-> state.layers[i].id])}
    \cup {Some(<<l>>) : l \in RealLayerIds}

RealGroupIds == {state.layerGroups[g].id : g \in 1..Len(state.layerGroups)}

GroupsAddLayer ==
  /\ Len(state.layers) < GroupLayerLimit
  /\ CallWithin(MaxGroupOps, addLayer(W, None), [op |-> "addLayer"])

GroupsSetCell ==
  /\ isLayerMode(state)
  /\ CallWithin(MaxGroupOps, setCell(W, 0, 0, CellA, TRUE, now), [op |-> "setCell"])

GroupsCreateGroup ==
  /\ isLayerMode(state)
  /\ \E ids \in ChildListInputs :
       CallWithin(MaxGroupOps, createGroup(W, None, ids),
                  [op |-> "createGroup", layerIds |-> ids])

GroupsUngroupLayers ==
  \E g \in RealGroupIds \cup {MissingId} :
    CallWithin(MaxGroupOps, ungroupLayers(W, g), [op |-> "ungroupLayers", groupId |-> g])

GroupsRemoveLayer ==
  \E l \in LayerIds :
    CallWithin(MaxGroupOps, removeLayer(W, l), [op |-> "removeLayer", layerId |-> l])

GroupsSetActiveLayer ==
  \E l \in RealLayerIds :
    CallWithin(MaxGroupOps, setActiveLayer(W, l), [op |-> "setActiveLayer"])

NextGroups ==
  \/ GroupsAddLayer
  \/ GroupsSetCell
  \/ GroupsCreateGroup
  \/ GroupsUngroupLayers
  \/ GroupsRemoveLayer
  \/ GroupsSetActiveLayer

SpecGroups == Init /\ [][NextGroups]_vars

\* a layer without its group link
Ungrouped(layer) == [layer EXCEPT !.parentGroupId = None]

\* the members of a sequence, as a set
Members(seq) == {seq[i] : i \in 1..Len(seq)}

\* `seq` without its n-th element
Without(seq, n) == [i \in 1..(Len(seq) - 1) |-> IF i < n THEN seq[i] ELSE seq[i + 1]]

(* C29: createGroup and ungroupLayers add, remove and reorder no layer and  *)
(* alter no layer content; a successful ungroupLayers removes that one      *)
(* group, clears parentGroupId on the layers in its child list, and leaves  *)
(* the other groups and the other layers' parentGroupId as they were.       *)
C29_GroupingKeepsLayers ==
  [][lastOp'.op \in {"createGroup", "ungroupLayers"} =>
       /\ heap'.frames = heap.frames
       /\ heap'.cframes = heap.cframes
       /\ heap'.data = heap.data
       /\ Len(state'.layers) = Len(state.layers)
       /\ \A i \in 1..Len(state.layers) :
            Ungrouped(state'.layers[i]) = Ungrouped(state.layers[i])
       /\ (lastOp'.op = "ungroupLayers" /\ IsTrue(ret')) =>
            LET n == CHOOSE n \in 1..Len(state.layerGroups) :
                       /\ state.layerGroups[n].id = lastOp'.groupId
                       /\ \A m \in 1..(n - 1) : state.layerGroups[m].id # lastOp'.groupId
                children == Members(state.layerGroups[n].childLayerIds)
            IN /\ state'.layerGroups = Without(state.layerGroups, n)
               /\ \A i \in 1..Len(state.layers) :
                    state'.layers[i].parentGroupId =
                      IF state.layers[i].id \in children THEN None
                      ELSE state.layers[i].parentGroupId]_vars

\* a group has just been dissolved while another group remains and a layer
\* keeps its link
C29_Witness_OtherGroupKept ==
  /\ lastOp.op = "ungroupLayers"
  /\ IsTrue(ret)
  /\ Len(state.layerGroups) >= 1
  /\ \E i \in 1..Len(state.layers) : state.layers[i].parentGroupId # None

\* the child list of `group` once `layerId` is taken out
ChildrenLeft(group, layerId) == SelectSeq(group.childLayerIds, LAMBDA id : id # layerId)

\* the groups a removal of `layerId` should leave: every group but those
\* whose child list the removal empties, each without `layerId`
GroupsLeft(groups, layerId) ==
  LET kept == SelectSeq(groups, LAMBDA g : ~(Len(g.childLayerIds) > 0
                                              /\ Len(ChildrenLeft(g, layerId)) = 0))
  IN [i \in 1..Len(kept) |->
        [kept[i] EXCEPT !.childLayerIds = ChildrenLeft(kept[i], layerId)]]

(* C30: a successful removeLayer(id) takes id out of every group's child    *)
(* list, removes exactly the groups whose child list became empty through   *)
(* this removal and keeps every other group as it was, and, if the removed  *)
(* layer was the active one, makes the layer now at the removed index, or   *)
(* else the last layer, the active one.                                     *)
C30_RemoveLayerPrunesGroups ==
  [][(lastOp'.op = "removeLayer" /\ IsTrue(ret')) =>
       LET id == lastOp'.layerId
           index == CHOOSE i \in 1..Len(state.layers) : state.layers[i].id = id
       IN /\ \A g \in 1..Len(state'.layerGroups) :
               id \notin Members(state'.layerGroups[g].childLayerIds)
          /\ state'.layerGroups = GroupsLeft(state.layerGroups, id)
          /\ state.activeLayerId = Some(id) =>
               state'.activeLayerId =
                 Some(state'.layers[Min(index, Len(state'.layers))].id)
          /\ state.activeLayerId # Some(id) =>
               state'.activeLayerId = state.activeLayerId]_vars

\* the same with the groups compared only where a group held layers before
\* the removal
RemoveLayerPrunesOwnGroups ==
  [][(lastOp'.op = "removeLayer" /\ IsTrue(ret')) =>
       LET id == lastOp'.layerId
           held == SelectSeq(state.layerGroups, LAMBDA g : Len(g.childLayerIds) > 0)
       IN state'.layerGroups = GroupsLeft(held, id)]_vars

----------------------------------------------------------------------------
(* SpecSelect: selections by match on the grids the fills are run on *)

MaxSelectOps == 2

SelectDraw ==
  CallWithin(MaxSelectOps, setCell(W, 0, 1, CellC, TRUE, now), [op |-> "setCell"])

SelectByColor ==
  \E s \in FillSeeds, o \in AllFillOpts :
    CallWithin(MaxSelectOps,
               select_by_color(W, s[1], s[2], o.matchChar, o.matchColor, o.matchBgColor,
                               o.contiguous),
               [op |-> "select_by_color", x |-> s[1], y |-> s[2], opts |-> o])

NextSelect ==
  \/ SelectDraw
  \/ SelectByColor

\* one of the fill grids in the only frame, and a rectangle selected
InitSelect ==
  \E g \in FillGrids :
    LET c == createDefaultState(EmptyHeap)
        n == newProject(c, Some(InitWidth), Some(InitHeight), None)
        f == n.state.frames[1]
        r == setSelection(n, [type |-> "rectangle", start |-> [x |-> 0, y |-> 0],
                              end |-> [x |-> 1, y |-> 1]])
    IN /\ state = r.state
       /\ heap = [r.heap EXCEPT !.data[r.heap.frames[f].data] = g]
       /\ ret = RetVoid
       /\ lastOp = [op |-> "setSelection"]
       /\ clock = 0
       /\ shadow = <<>>
       /\ phase = "ops"

SpecSelect == InitSelect /\ [][NextSelect]_vars

(* C31: for every grid, in-bounds seed, subset of the three predicates and  *)
(* contiguous flag, select_by_color leaves a selection of type 'cells'      *)
(* whose coordinates, each listed once, are exactly the cells fillRegion    *)
(* would fill with the same arguments, and it changes no grid, no history   *)
(* entry and no dirty flag.                                                 *)
C31_SelectEqualsFill ==
  [][(/\ lastOp'.op = "select_by_color"
      /\ isInBounds(lastOp'.x, lastOp'.y, state.width, state.height)) =>
       LET a == lastOp'
           sel == state'.selection
       IN /\ IsToolSuccess(ret')
          /\ sel.type = "cells"
          /\ Members(sel.cells) = cellsToFill(W, a.x, a.y, a.opts)
          /\ Len(sel.cells) = Cardinality(Members(sel.cells))
          /\ ret'.result.cellsSelected = Len(sel.cells)
          /\ [state' EXCEPT !.selection = state.selection] = state
          /\ heap' = heap]_vars

\* a contiguous selection that a wall kept on the seed's side, made on a
\* document with an unsaved edit in its history
C31_Witness_WallStopsSelection ==
  /\ lastOp.op = "select_by_color"
  /\ IsToolSuccess(ret)
  /\ lastOp.opts.contiguous /\ lastOp.opts.matchChar
  /\ ret.result.cellsSelected > 1
  /\ ret.result.cellsSelected < Cardinality(cellsToFill(W, lastOp.x, lastOp.y,
                                      [lastOp.opts EXCEPT !.contiguous = FALSE]))
  /\ state.isDirty
  /\ Len(state.historyStack) = 1

----------------------------------------------------------------------------
(* SpecFlood: the flood-fill loop of fillRegion, one iteration at a time.   *)
(* ret holds the loop's queue, visited set and fill set; shadow lists the   *)
(* coordinates whose neighbours were enqueued, in order; clock counts the   *)
(* iterations.                                                              *)

InitFlood ==
  \E g \in FillGrids, s \in FillSeeds, o \in AllFillOpts :
    LET c == createDefaultState(EmptyHeap)
        n == newProject(c, Some(InitWidth), Some(InitHeight), None)
        f == n.state.frames[1]
        hp == [n.heap EXCEPT !.data[n.heap.frames[f].data] = g]
    IN /\ o.contiguous
       /\ state = n.state
       /\ heap = hp
       /\ ret = [queue |-> <<[x |-> s[1], y |-> s[2]]>>, visited |-> {}, fill |-> {}]
       /\ lastOp = [op |-> "fillRegion", x |-> s[1], y |-> s[2], opts |-> o,
                    targetCell |-> getCell([state |-> n.state, heap |-> hp], s[1], s[2])]
       /\ clock = 0
       /\ shadow = <<>>
       /\ phase = "ops"

\* one pass through the body of `while (queue.length > 0)`
FloodTick ==
  /\ Len(ret.queue) > 0
  /\ ret' = FloodStep(W, lastOp.targetCell, lastOp.opts, ret)
  /\ shadow' = IF Len(ret'.queue) > Len(ret.queue) - 1
               THEN Append(shadow, Head(ret.queue))
               ELSE shadow
  /\ clock' = clock + 1
  /\ UNCHANGED <<state, heap, lastOp, phase>>

SpecFlood == InitFlood /\ [][FloodTick]_vars /\ WF_vars(FloodTick)

(* C32: the flood fill ends for every seed, in bounds or not, every grid    *)
(* and every subset of the predicates: the work queue becomes empty and     *)
(* stays so, and no in-bounds coordinate has its neighbours enqueued more   *)
(* than once (only in-bounds coordinates are expanded at all).              *)
C32_FloodTerminates ==
  /\ <>[](Len(ret.queue) = 0)
  /\ [](/\ Len(shadow) = Cardinality(Members(shadow))
        /\ \A i \in 1..Len(shadow) :
             isInBounds(shadow[i].x, shadow[i].y, state.width, state.height)
        /\ clock <= FloodFuel(W))

\* the loop has ended after it expanded several cells and met cells that do
\* not match
C32_Witness_LoopEnded ==
  /\ Len(ret.queue) = 0
  /\ Len(shadow) > 1
  /\ ret.visited # ret.fill
  /\ clock > Len(shadow)

----------------------------------------------------------------------------
(* SpecLayerEdit: cell edits on layered documents whose layers hold several *)
(* content frames, with gaps between them                                   *)

MaxLayerEditOps == 5

EditStartInputs == {1, 2}

EditAddLayer ==
  /\ Len(state.layers) < MaxLayers
  /\ CallWithin(MaxLayerEditOps, addLayer(W, None), [op |-> "addLayer"])

EditAddContentFrame ==
  /\ isLayerMode(state)
  /\ \E l \in RealLayerIds, s \in EditStartInputs :
       CallWithin(MaxLayerEditOps, addContentFrame(W, l, s, 1, None),
                  [op |-> "addContentFrame"])

EditSetActiveLayer ==
  \E l \in RealLayerIds :
    CallWithin(MaxLayerEditOps, setActiveLayer(W, l), [op |-> "setActiveLayer"])

EditGoToFrame ==
  /\ isLayerMode(state)
  /\ \E i \in {0, 1, 2} :
       CallWithin(MaxLayerEditOps, goToFrame(W, i), [op |-> "goToFrame"])

EditSetCell ==
  /\ isLayerMode(state)
  /\ CallWithin(MaxLayerEditOps, setCell(W, 1, 0, CellA, TRUE, now), [op |-> "setCell"])

EditSetCells ==
  /\ isLayerMode(state)
  /\ CallWithin(MaxLayerEditOps,
                setCells(W, <<[x |-> 0, y |-> 0, cell |-> CellB],
                              [x |-> OutX, y |-> OutY, cell |-> CellA]>>, TRUE, now),
                [op |-> "setCells"])

EditClearCell ==
  /\ isLayerMode(state)
  /\ CallWithin(MaxLayerEditOps, clearCell(W, 1, 0, TRUE, now), [op |-> "clearCell"])

EditClearCanvas ==
  /\ isLayerMode(state)
  /\ CallWithin(MaxLayerEditOps, clearCanvas(W, TRUE, now), [op |-> "clearCanvas"])

EditFillRegion ==
  /\ isLayerMode(state)
  /\ CallWithin(MaxLayerEditOps,
                fillRegion(W, 0, 0, CellB, FillOpts(TRUE, TRUE, FALSE, FALSE), TRUE, now),
                [op |-> "fillRegion"])

NextLayerEdit ==
  \/ EditAddLayer
  \/ EditAddContentFrame
  \/ EditSetActiveLayer
  \/ EditGoToFrame
  \/ EditSetCell
  \/ EditSetCells
  \/ EditClearCell
  \/ EditClearCanvas
  \/ EditFillRegion

SpecLayerEdit == Init /\ [][NextLayerEdit]_vars

CellEdits == {"setCell", "setCells", "clearCell", "clearCanvas", "fillRegion"}

\* the content frames of the active layer that are not hidden and whose
\* interval holds the current timeline position
Showing(st, hp) ==
  {r \in 1..Len(hp.cframes) :
     \E l \in 1..Len(st.layers) :
       /\ st.activeLayerId = Some(st.layers[l].id)
       /\ \E c \in 1..Len(st.layers[l].contentFrames) : st.layers[l].contentFrames[c] = r
       /\ ~hp.cframes[r].hidden
       /\ hp.cframes[r].startFrame <= st.currentFrameIndex
       /\ st.currentFrameIndex < hp.cframes[r].startFrame + hp.cframes[r].durationFrames}

\* the content frames whose grid differs between two heaps
Touched(hpBefore, hpAfter) ==
  {r \in 1..Len(hpBefore.cframes) :
     GridOf(hpAfter, hpAfter.cframes[r].data) # GridOf(hpBefore, hpBefore.cframes[r].data)}

FlatGrids(st, hp) ==
  [i \in 1..Len(st.frames) |-> GridOf(hp, hp.frames[st.frames[i]].data)]

----------------------------------------------------------------------------
(* The current frame index of a flat document *)

(* C34: in flat mode the current frame index names an existing frame,       *)
(* 0 <= currentFrameIndex < frames.length, in every reachable state after   *)
(* any interleaving of addFrame, deleteFrame, duplicateFrame, goToFrame,    *)
(* undo and redo.                                                           *)
C34_FrameIndexInRange ==
  ~isLayerMode(state) =>
    /\ 0 <= state.currentFrameIndex
    /\ state.currentFrameIndex < Len(state.frames)

\* goToFrame returns true exactly for an index in range and leaves the
\* index alone otherwise
GoToFrameChecksRange ==
  [][lastOp'.op = "goToFrame" /\ ~isLayerMode(state) =>
       /\ IsTrue(ret') \/ state'.currentFrameIndex = state.currentFrameIndex
       /\ IsTrue(ret') => state'.currentFrameIndex < Len(state.frames)]_vars

----------------------------------------------------------------------------
(* addFrame(atIndex) followed by undo() and redo() *)

\* the frames of a document in order, each with its id and grid
FrameSeq(st, hp) ==
  [i \in 1..Len(st.frames) |->
     [id |-> hp.frames[st.frames[i]].id,
      grid |-> GridOf(hp, hp.frames[st.frames[i]].data)]]

(* C35: undo() right after addFrame(atIndex) restores exactly the frame     *)
(* sequence that was there before the call, for every integer atIndex       *)
(* (beyond the frame count and negative included), and redo() right after   *)
(* that undo yields the frame sequence the original call produced.          *)
C35_AddFrameUndoRestores ==
  [][/\ (lastOp.op = "addFrame" /\ lastOp'.op = "undo") =>
          FrameSeq(state', heap') = shadow[Len(shadow)].pre.frames
     /\ (lastOp.op = "undo" /\ lastOp'.op = "redo" /\ Len(shadow) > 0
           /\ Len(state.historyStack) > 0
           /\ state.historyIndex = Len(state.historyStack) - 2
           /\ state.historyStack[Len(state.historyStack)].type = "add_frame"
           /\ state.historyStack[Len(state.historyStack)].timestamp = clock) =>
          FrameSeq(state', heap') = shadow[Len(shadow)].post.frames]_vars

\* the same for addFrame calls whose atIndex is absent or within
\* 0..frames.length
AddFrameInRangeUndoRestores ==
  [][(lastOp.op = "addFrame" /\ lastOp'.op = "undo"
        /\ (lastOp.atIndex = None
              \/ (lastOp.atIndex[1] >= 0
                    /\ lastOp.atIndex[1] <= Len(shadow[Len(shadow)].pre.frames)))) =>
          FrameSeq(state', heap') = shadow[Len(shadow)].pre.frames]_vars

----------------------------------------------------------------------------
(* The history cursor *)

(* C36: in every reachable state -1 <= historyIndex <= historyStack.length  *)
(* - 1, whatever recorded operations, undos, redos, capacity evictions,     *)
(* newProject calls and loads came before; and right after a call that      *)
(* pushed an entry the cursor is on the newest entry, historyStack.length   *)
(* - 1.                                                                     *)
C36_CursorWithinStack ==
  /\ [](/\ -1 <= state.historyIndex
        /\ state.historyIndex <= Len(state.historyStack) - 1)
  /\ [][Recorded(state', now) =>
          state'.historyIndex = Len(state'.historyStack) - 1]_vars

\* a recorded edit has just pushed onto a full stack: the oldest entry is
\* gone, the stack is at capacity and the cursor is on the newest entry
C36_Witness_PushedAtCapacity ==
  /\ lastOp.op = "setCell"
  /\ Recorded(state, clock)
  /\ Len(state.historyStack) = MaxHistorySize
  /\ Len(shadow) > MaxHistorySize
  /\ state.historyStack[1].timestamp > 1
  /\ state.historyIndex = Len(state.historyStack) - 1

----------------------------------------------------------------------------
(* SpecActiveLayer: the layer list operations together with setActiveLayer *)

ActiveSetActiveLayer ==
  \E l \in LayerIds :
    CallWithin(MaxLayerListOps, setActiveLayer(W, l),
               [op |-> "setActiveLayer", known |-> FindLayer(state, l) # 0])

NextActiveLayer ==
  \/ NextLayerList
  \/ ActiveSetActiveLayer

SpecActiveLayer == Init /\ [][NextActiveLayer]_vars

(* C37: in layered mode activeLayerId is the id of a layer in the layer     *)
(* list, after any sequence of addLayer, removeLayer, duplicateLayer,       *)
(* setActiveLayer, reorderLayers and layered loads; addLayer and a          *)
(* successful duplicateLayer make the layer they return the active one,     *)
(* and setActiveLayer with an id that names no layer returns false and      *)
(* leaves the active layer as it was.                                       *)
C37_ActiveLayerExists ==
  /\ [](isLayerMode(state) =>
          \E l \in 1..Len(state.layers) : state.activeLayerId = Some(state.layers[l].id))
  /\ [][/\ (lastOp'.op \in {"addLayer", "duplicateLayer"} /\ "obj" \in DOMAIN ret') =>
             state'.activeLayerId = Some(ret'.obj)
        /\ (lastOp'.op = "setActiveLayer" /\ ~lastOp'.known) =>
             (IsFalse(ret') /\ state' = state)
        /\ (lastOp'.op = "setActiveLayer" /\ lastOp'.known) => IsTrue(ret')]_vars

\* setActiveLayer has just been turned down for an unknown id on a document
\* of two layers whose active layer is the first of the list
C37_Witness_UnknownIdRefused ==
  /\ lastOp.op = "setActiveLayer"
  /\ ~lastOp.known
  /\ IsFalse(ret)
  /\ Len(state.layers) = 2
  /\ state.activeLayerId = Some(state.layers[1].id)

----------------------------------------------------------------------------
(* Group membership against the layers' back-references *)

(* C38: in every reachable state, for every layer L and every group G,      *)
(* L.parentGroupId = G.id exactly when L.id is in G.childLayerIds, and      *)
(* every id in a child list is the id of a layer of the document.           *)
C38_GroupLinksConsistent ==
  /\ \A l \in 1..Len(state.layers), g \in 1..Len(state.layerGroups) :
       (state.layers[l].parentGroupId = Some(state.layerGroups[g].id))
         <=> (state.layers[l].id \in Members(state.layerGroups[g].childLayerIds))
  /\ \A g \in 1..Len(state.layerGroups) :
       Members(state.layerGroups[g].childLayerIds) \subseteq RealLayerIds

----------------------------------------------------------------------------
(* SpecLocked: the layered edits together with setLayerLocked *)

LockSetLayerLocked ==
  \E l \in RealLayerIds, b \in BOOLEAN :
    CallWithin(MaxLayerEditOps, setLayerLocked(W, l, b), [op |-> "setLayerLocked"])

NextLocked ==
  \/ NextLayerEdit
  \/ LockSetLayerLocked

SpecLocked == Init /\ [][NextLocked]_vars

ActiveLayerLocked(st) ==
  /\ isLayerMode(st)
  /\ getActiveLayer(st) # 0
  /\ st.layers[getActiveLayer(st)].locked

(* C39: in layered mode, while the active layer is locked, setCell,         *)
(* setCells, clearCell, clearCanvas and fillRegion change no content        *)
(* frame's grid, push no history entry and do not set the dirty flag.       *)
C39_LockedLayerUntouched ==
  [][(lastOp'.op \in CellEdits /\ ActiveLayerLocked(state)) =>
       /\ Touched(heap, heap') = {}
       /\ state'.historyStack = state.historyStack
       /\ state'.historyIndex = state.historyIndex
       /\ state'.isDirty = state.isDirty]_vars

\* the same for the four operations other than fillRegion
LockedStopsDirectEdits ==
  [][(lastOp'.op \in CellEdits \ {"fillRegion"} /\ ActiveLayerLocked(state)) =>
       (state' = state /\ heap' = heap)]_vars

----------------------------------------------------------------------------
(* SpecSnapshot: recorded edits of a flat document, then one snapshot from  *)
(* the browser, with undo and redo before and after it                      *)

MaxSnapshotOps == 4

SnapFrame(n, data) ==
  [id |-> Some(<<"snap", n>>), name |-> Some(<<"Snap", n>>), duration |-> Some(100),
   data |-> Some(data)]

EmptySnapshot ==
  [canvas |-> None, project |-> None, layers |-> None, layerGroups |-> None,
   timeline |-> None, activeLayerId |-> None, animation |-> None]

FlatSnapshot(frames, index) ==
  [EmptySnapshot EXCEPT
     !.canvas = Some([width |-> Some(InitWidth), height |-> Some(InitHeight),
                      backgroundColor |-> None]),
     !.animation = Some([frames |-> frames, currentFrameIndex |-> Some(index)])]

SnapLayer(n) ==
  [id |-> <<"snap-layer", n>>, name |-> <<"Layer", n>>, visible |-> TRUE, solo |-> FALSE,
   locked |-> FALSE, opacity |-> 100,
   contentFrames |-> <<[id |-> <<"snap-cf", n>>, name |-> <<"Frame", 1>>,
                        startFrame |-> 0, durationFrames |-> 2,
                        data |-> DataSet(EmptyData, createCellKey(0, 0), CellB),
                        hidden |-> FALSE]>>,
   propertyTracks |-> <<>>, staticProperties |-> None, parentGroupId |-> None]

LayeredSnapshot ==
  [EmptySnapshot EXCEPT
     !.project = Some([name |-> "from browser"]),
     !.layers = Some(<<SnapLayer(1)>>),
     !.timeline = Some([frameRate |-> Some(24), durationFrames |-> None,
                        looping |-> None])]

\* one frame; two frames with the second one current; a layered document
SnapshotInputs ==
  { [kind |-> "flat",
     data |-> Some(FlatSnapshot(<<SnapFrame(1, DataSet(EmptyData, createCellKey(1, 1), CellA))>>,
                                0))],
    [kind |-> "flat",
     data |-> Some(FlatSnapshot(<<SnapFrame(1, EmptyData),
                                  SnapFrame(2, DataSet(EmptyData, createCellKey(0, 0), CellB))>>,
                                1))],
    [kind |-> "layered", data |-> Some(LayeredSnapshot)] }

\* a snapshot has been loaded
Synced == "synced" \in DOMAIN lastOp /\ lastOp.synced

SyncKind == IF Synced THEN lastOp.kind ELSE "none"

SnapAddFrame ==
  /\ ~Synced
  /\ \E at \in {None, Some(0)} :
       CallWithin(MaxSnapshotOps, addFrame(W, at, None, None, TRUE, now),
                  [op |-> "addFrame", synced |-> FALSE, kind |-> "none"])

SnapDeleteFrame ==
  /\ ~Synced
  /\ CallWithin(MaxSnapshotOps, deleteFrame(W, 0, TRUE, now),
                [op |-> "deleteFrame", synced |-> FALSE, kind |-> "none"])

SnapSetCell ==
  /\ ~Synced
  /\ CallWithin(MaxSnapshotOps, setCell(W, 0, 0, CellA, TRUE, now),
                [op |-> "setCell", synced |-> FALSE, kind |-> "none"])

SnapGoToFrame ==
  /\ ~Synced
  /\ CallWithin(MaxSnapshotOps, goToFrame(W, 1),
                [op |-> "goToFrame", synced |-> FALSE, kind |-> "none"])

\* the message handler runs to completion between two tool calls
SnapshotArrives ==
  /\ ~Synced
  /\ \E s \in SnapshotInputs :
       CallWithin(MaxSnapshotOps + 1, loadFromBrowserSnapshot(W, s.data),
                  [op |-> "state_snapshot", synced |-> TRUE, kind |-> s.kind])

SnapUndo ==
  CallWithin(MaxSnapshotOps + 3, undo(W),
             [op |-> "undo", synced |-> Synced, kind |-> SyncKind])

SnapRedo ==
  CallWithin(MaxSnapshotOps + 3, redo(W),
             [op |-> "redo", synced |-> Synced, kind |-> SyncKind])

NextSnapshot ==
  \/ SnapAddFrame
  \/ SnapDeleteFrame
  \/ SnapSetCell
  \/ SnapGoToFrame
  \/ SnapshotArrives
  \/ SnapUndo
  \/ SnapRedo

SpecSnapshot == Init /\ [][NextSnapshot]_vars

\* the layers of a document in order, each with the grids of its content frames
LayerSeq(st, hp) ==
  [l \in 1..Len(st.layers) |->
     [id |-> st.layers[l].id,
      frames |-> [c \in 1..Len(st.layers[l].contentFrames) |->
                    LET cf == hp.cframes[st.layers[l].contentFrames[c]]
                    IN [id |-> cf.id, startFrame |-> cf.startFrame,
                        durationFrames |-> cf.durationFrames,
                        grid |-> GridOf(hp, cf.data)]]]]

(* C40: once a snapshot from the browser has replaced the frame list or the *)
(* layer list, an undo() or redo() of an entry recorded before the snapshot *)
(* adds, removes and alters no frame of a frame list that came from the     *)
(* snapshot and no layer of a layer list that came from it, and the frame   *)
(* list stays non-empty with currentFrameIndex in range.                    *)
C40_SnapshotSurvivesUndo ==
  [][(lastOp'.op \in {"undo", "redo"} /\ Synced) =>
       /\ lastOp.kind = "flat" =>
            /\ FrameSeq(state', heap') = FrameSeq(state, heap)
            /\ 0 <= state'.currentFrameIndex
            /\ state'.currentFrameIndex < Len(state'.frames)
       /\ lastOp.kind = "layered" => LayerSeq(state', heap') = LayerSeq(state, heap)
       /\ Len(state'.frames) > 0]_vars

\* the layered half alone: the layers a snapshot brought stay as they are
SnapshotLayersSurviveUndo ==
  [][(lastOp'.op \in {"undo", "redo"} /\ Synced /\ lastOp.kind = "layered") =>
       LayerSeq(state', heap') = LayerSeq(state, heap)]_vars
====
